---- MODULE Spec2Model ----
(***************************************************************************)
(* Graph analytics engine of TCMKG-nx (src/index.tsx, lines 27-562):       *)
(* adjacency index, distance functions, hierarchical clustering, vector    *)
(* k-means, bipartite label propagation, association rules, centrality     *)
(* rankings and the co-occurrence graph builder.                           *)
(*                                                                         *)
(* Representation.                                                         *)
(*  - A string is a sequence of one-character strings, so that template    *)
(*    literals (`${a}|${b}`), split('|') and the < comparison of strings   *)
(*    are computed, not assumed.                                           *)
(*  - A JavaScript number is a pair <<n, d>>: the rational n/d in lowest   *)
(*    terms (d > 0), or <<1,0>> = Infinity, <<-1,0>> = -Infinity,          *)
(*    <<0,0>> = NaN.  Results are exact, with Math.sqrt rounded down to    *)
(*    1/SqrtScale, in every specification but SpecRounded, where every     *)
(*    result is rounded as IEEE 754 rounds it (to nearest, ties to even)   *)
(*    to a significand of MantissaBits bits in place of the 53 of a        *)
(*    double.                                                              *)
(*  - A JavaScript Set is a duplicate-free sequence in insertion order; a  *)
(*    Map is a sequence of <<key, value>> pairs in insertion order.        *)
(*  - A plain object used as a dictionary is such a Map for every key but  *)
(*    "__proto__", which is no property of the object itself (ObjSet,      *)
(*    ObjGet).                                                             *)
(*  - A call that throws ends with pc = "raised" instead of "done".        *)
(***************************************************************************)
EXTENDS Integers, Sequences, FiniteSets, TLC

VARIABLES
  pc,           \* where the running engine call stands
  entities,     \* RawEntity[] handed to the call
  relations,    \* RawRelation[] handed to the call
  nodes,        \* GraphNode[] handed to (or built for) the call
  links,        \* GraphLink[] handed to (or built for) the call
  config,       \* the call's parameter record
  vectors,      \* feature vectors (hierarchical: by id; k-means: by position)
  clusters,     \* hierarchical: the current cluster list
  centroids,    \* k-means: the current centroids
  assignments,  \* k-means: the current assignment of each vector
  iter,         \* loop counter of the running call (k-means round, community pass)
  labels,       \* community: the label of each node id
  change,       \* community: whether the last pass changed a label
  result,       \* what the call returned
  session,      \* the caller's record: what it handed to the running call,
                \* and the calls it made before with what they returned
  precision     \* the bits of significand results are rounded to (Exact: none is)

vars == <<pc, entities, relations, nodes, links, config, vectors,
          clusters, centroids, assignments, iter, labels, change, result,
          session, precision>>

\* The value of a variable the running operation does not use.
NoVal == <<>>

(* ------------------------------ bounds -------------------------------- *)
\* Precision of the modelled Math.sqrt: results are multiples of 1/SqrtScale.
SqrtScale == 100
\* Longest vector handed to calculateDistance on its own.
MaxDim == 2
\* Most nodes handed to calculateHierarchicalTree.
MaxHierNodes == 3
\* Largest k handed to calculateVectorKMeans.
MaxK == 3
\* Most nodes handed to calculateCentralityRankings.
MaxCentralityNodes == 6
\* Most nodes with letters as ids handed to calculateBetweenness on its own.
MaxBetweennessNodes == 4
\* Significant bits of a number in the rounded arithmetic of SpecRounded.
MantissaBits == 6
\* Most nodes, and the largest link weight, of a graph of SpecRounded.
MaxRoundedNodes == 5
MaxRoundedWeight == 3
\* Most nodes handed to the merge loop of calculateHierarchicalTree on its own.
MaxMergeNodes == 4
\* Most engine calls one caller makes in a row.
MaxCalls == 2

(* ------------------------------ sequences ----------------------------- *)
Range(s) == {s[i] : i \in 1..Len(s)}

Reverse(sq) == [i \in 1..Len(sq) |-> sq[Len(sq) + 1 - i]]

Min2(a, b) == IF a < b THEN a ELSE b
Max2(a, b) == IF a > b THEN a ELSE b
AbsInt(x) == IF x < 0 THEN -x ELSE x

\* All sequences over S of length at most n.
SeqsUpTo(S, n) == UNION {[1..k -> S] : k \in 0..n}

(* ------------------------------ numbers ------------------------------- *)
RECURSIVE GCD(_, _)
GCD(a, b) == IF b = 0 THEN a ELSE GCD(b, a % b)

Inf == <<1, 0>>
NaN == <<0, 0>>
Zero == <<0, 1>>
One == <<1, 1>>

Sign(x) == IF x > 0 THEN 1 ELSE IF x < 0 THEN -1 ELSE 0

\* n/d in lowest terms with a positive denominator; d = 0 gives +-Infinity or NaN.
Rat(n, d) ==
  IF d = 0 THEN <<Sign(n), 0>>
  ELSE LET g == GCD(AbsInt(n), AbsInt(d))
           s == IF d < 0 THEN -1 ELSE 1
       IN  <<s * (n \div g), s * (d \div g)>>

Num(i) == <<i, 1>>
IsNaN(a) == a = NaN
IsFinite(a) == a[2] # 0

\* The value of precision under which no result is rounded; <<p>> rounds to
\* p significant bits.
Exact == <<>>

\* n/d > 0 as (n'/d') * base^e with lo <= n'/d' < base * lo: <<n', d', e>>
\* (base 2 for a result, base 4 for the argument of a square root).
RECURSIVE Normalized(_, _, _, _, _)
Normalized(n, d, e, lo, base) ==
  IF n >= base * lo * d THEN Normalized(n, base * d, e + 1, lo, base)
  ELSE IF n < lo * d THEN Normalized(base * n, d, e - 1, lo, base)
  ELSE <<n, d, e>>

\* The integer nearest to n/d, the even one of two equally near.
Nearest(n, d) ==
  IF 2 * (n % d) > d \/ (2 * (n % d) = d /\ (n \div d) % 2 = 1)
  THEN (n \div d) + 1 ELSE n \div d

\* m * 2^e
Scaled(m, e) ==
  Rat(m * (IF e >= 0 THEN 2 ^ e ELSE 1), IF e >= 0 THEN 1 ELSE 2 ^ (-e))

RoundNormalized(t, sign) == Scaled(sign * Nearest(t[1], t[2]), t[3])

\* x rounded to p significant bits, to nearest and ties to even.
RoundTo(x, p) ==
  IF x[1] = 0 THEN x
  ELSE RoundNormalized(Normalized(AbsInt(x[1]), x[2], 0, 2 ^ (p - 1), 2), Sign(x[1]))

\* A finite result as the arithmetic in force keeps it.
Fl(x) == IF precision = Exact THEN x ELSE RoundTo(x, precision[1])

NAdd(a, b) ==
  IF IsNaN(a) \/ IsNaN(b) THEN NaN
  ELSE IF ~IsFinite(a) /\ ~IsFinite(b) THEN (IF a = b THEN a ELSE NaN)
  ELSE IF ~IsFinite(a) THEN a
  ELSE IF ~IsFinite(b) THEN b
  ELSE Fl(Rat(a[1] * b[2] + b[1] * a[2], a[2] * b[2]))

NNeg(a) == <<-a[1], a[2]>>
NSub(a, b) == NAdd(a, NNeg(b))
NAbs(a) == <<AbsInt(a[1]), a[2]>>

NMul(a, b) ==
  IF IsNaN(a) \/ IsNaN(b) THEN NaN
  ELSE IF ~IsFinite(a) \/ ~IsFinite(b) THEN <<Sign(a[1]) * Sign(b[1]), 0>>
  ELSE Fl(Rat(a[1] * b[1], a[2] * b[2]))

\* IEEE division: x/0 is +-Infinity, 0/0 and Infinity/Infinity are NaN.
NDiv(a, b) ==
  IF IsNaN(a) \/ IsNaN(b) THEN NaN
  ELSE IF ~IsFinite(a) THEN (IF ~IsFinite(b) THEN NaN
                             ELSE <<a[1] * (IF b[1] < 0 THEN -1 ELSE 1), 0>>)
  ELSE IF ~IsFinite(b) THEN Zero
  ELSE IF b[1] = 0 THEN <<Sign(a[1]), 0>>
  ELSE Fl(Rat(a[1] * b[2], a[2] * b[1]))

\* a < b; every comparison with NaN is false.
NLess(a, b) ==
  IF IsNaN(a) \/ IsNaN(b) THEN FALSE
  ELSE IF ~IsFinite(a) THEN a[1] < 0 /\ b # a
  ELSE IF ~IsFinite(b) THEN b[1] > 0
  ELSE a[1] * b[2] < b[1] * a[2]

NGeq(a, b) == ~IsNaN(a) /\ ~IsNaN(b) /\ ~NLess(a, b)
NMax(a, b) == IF IsNaN(a) \/ IsNaN(b) THEN NaN ELSE IF NLess(a, b) THEN b ELSE a

\* floor(sqrt(x)) for 0 <= x < 2^31, by bisection on lo^2 <= x < hi^2.
RECURSIVE ISqrtBetween(_, _, _)
ISqrtBetween(x, lo, hi) ==
  IF hi - lo <= 1 THEN lo
  ELSE LET mid == (lo + hi) \div 2
       IN  IF mid * mid <= x THEN ISqrtBetween(x, mid, hi)
                             ELSE ISqrtBetween(x, lo, mid)
ISqrt(x) == ISqrtBetween(x, 0, 46341)

\* The integer nearest to sqrt(n/d), given m = floor(sqrt(n/d)).
SqrtNearest(n, d, m) ==
  IF 4 * n > (2 * m + 1) * (2 * m + 1) * d
       \/ (4 * n = (2 * m + 1) * (2 * m + 1) * d /\ m % 2 = 1)
  THEN m + 1 ELSE m

SqrtNormalized(t) == Scaled(SqrtNearest(t[1], t[2], ISqrt(t[1] \div t[2])), t[3])

\* sqrt(x), x > 0, rounded to p significant bits: with x = q * 4^e and
\* 4^(p-1) <= q < 4^p the significand is floor(sqrt(q)) or the next integer,
\* and the result is the significand times 2^e.
SqrtRoundTo(x, p) == SqrtNormalized(Normalized(x[1], x[2], 0, 4 ^ (p - 1), 4))

\* Math.sqrt: sqrt(n/d) = sqrt(n*d)/d rounded down to a multiple of
\* 1/SqrtScale in exact arithmetic, correctly rounded otherwise.
NSqrt(a) ==
  IF IsNaN(a) \/ a[1] < 0 THEN NaN
  ELSE IF ~IsFinite(a) THEN Inf
  ELSE IF precision = Exact \/ a[1] = 0
  THEN Rat(ISqrt(a[1] * a[2] * SqrtScale * SqrtScale), a[2] * SqrtScale)
  ELSE SqrtRoundTo(a, precision[1])

(* ------------------------------ strings ------------------------------- *)
\* UTF-16 code unit of the characters the model's names are written with.
Code(c) ==
  CASE c = "a" -> 97 [] c = "b" -> 98 [] c = "c" -> 99 [] c = "d" -> 100
    [] c = "e" -> 101 [] c = "f" -> 102 [] c = "g" -> 103
    [] c = "x" -> 120 [] c = "y" -> 121 [] c = "z" -> 122 [] c = "|" -> 124
    [] c = "_" -> 95 [] c = "o" -> 111 [] c = "p" -> 112 [] c = "r" -> 114
    [] c = "t" -> 116

\* The < operator of JavaScript on two strings: code units, left to right.
RECURSIVE StrLess(_, _)
StrLess(x, y) ==
  IF y = <<>> THEN FALSE
  ELSE IF x = <<>> THEN TRUE
  ELSE IF Head(x) = Head(y) THEN StrLess(Tail(x), Tail(y))
  ELSE Code(Head(x)) < Code(Head(y))

\* `${x}|${y}`
PairKey(x, y) == x \o <<"|">> \o y

\* String.prototype.split('|'): the pieces between the separators.
RECURSIVE SplitBar(_, _)
SplitBar(s, cur) ==
  IF s = <<>> THEN <<cur>>
  ELSE IF Head(s) = "|" THEN <<cur>> \o SplitBar(Tail(s), <<>>)
  ELSE SplitBar(Tail(s), Append(cur, Head(s)))
Split(s) == SplitBar(s, <<>>)

(* --------------------------- Set and Map ------------------------------ *)
\* Set.prototype.add: insertion order, no duplicates.
SetAdd(s, x) == IF x \in Range(s) THEN s ELSE Append(s, x)

RECURSIVE SetFrom(_)
SetFrom(s) == IF s = <<>> THEN <<>>
              ELSE LET rest == SetFrom(SubSeq(s, 1, Len(s) - 1))
                   IN  SetAdd(rest, s[Len(s)])

MapHas(m, k) == \E i \in 1..Len(m) : m[i][1] = k
MapIdx(m, k) == CHOOSE i \in 1..Len(m) : m[i][1] = k
\* Map.prototype.get with the value for a missing key given by the caller.
MapGet(m, k, dflt) == IF MapHas(m, k) THEN m[MapIdx(m, k)][2] ELSE dflt
\* Map.prototype.set: a present key keeps its place, a new key goes last.
MapSet(m, k, v) ==
  IF MapHas(m, k) THEN [m EXCEPT ![MapIdx(m, k)] = <<k, v>>]
  ELSE Append(m, <<k, v>>)

\* A plain object used as a dictionary ({} indexed by a string key).  Its own
\* properties are modelled as a Map; the keys of the model are never
\* array-index strings, so own keys are listed in insertion order.  The one
\* key that is not a property of the object itself is "__proto__": writing a
\* number to it is ignored by the setter inherited from Object.prototype, and
\* reading it gives Object.prototype.
NameProto == <<"_", "_", "p", "r", "o", "t", "o", "_", "_">>
ObjectPrototype == <<"Object.prototype">>
ObjSet(obj, key, val) == IF key = NameProto THEN obj ELSE MapSet(obj, key, val)
ObjGet(obj, key) == IF key = NameProto THEN ObjectPrototype ELSE MapGet(obj, key, NoVal)

(* --------------------------- Graph Index ------------------------------ *)
\* A link's weight field when the link has none (undefined).
NoWeight == "undefined"

\* A link end given as a string, and one resolved to its node object.
StrEnd(n) == [isObject |-> FALSE, str |-> n]
ObjEnd(n) == [isObject |-> TRUE, node |-> [id |-> n]]

\* typeof l.source === 'object' ? l.source.id : l.source
EndpointId(e) == IF e.isObject THEN e.node.id ELSE e.str

\* l.weight || 1: undefined, 0 and NaN are falsy.
WeightOr1(l) ==
  IF l.weight = NoWeight THEN One
  ELSE IF l.weight = Zero \/ IsNaN(l.weight) THEN One
  ELSE l.weight

LinkWeight(l, weighted) == IF weighted THEN WeightOr1(l) ELSE One

\* One link's two pushes: onto the source's list, then onto the target's.
AddLink(adj, l, weighted) ==
  LET s == EndpointId(l.source)
      t == EndpointId(l.target)
      w == LinkWeight(l, weighted)
      adj1 == IF s \in DOMAIN adj
              THEN [adj EXCEPT ![s] = Append(@, [id |-> t, weight |-> w])]
              ELSE adj
  IN  IF t \in DOMAIN adj1
      THEN [adj1 EXCEPT ![t] = Append(@, [id |-> s, weight |-> w])]
      ELSE adj1

RECURSIVE AddLinks(_, _, _)
AddLinks(adj, ls, weighted) ==
  IF ls = <<>> \/ DOMAIN adj = {} THEN adj  \* without a node no list is pushed onto
  ELSE AddLinks(AddLink(adj, Head(ls), weighted), Tail(ls), weighted)

NodeIds(ns) == {ns[i].id : i \in 1..Len(ns)}

getAdjacency(ns, ls, weighted) ==
  AddLinks([i \in NodeIds(ns) |-> <<>>], ls, weighted)

(* --------------------------- Distance Module --------------------------- *)
DistanceTypes == {"euclidean", "manhattan", "chebyshev", "lance"}

\* vecB[i] in arithmetic: past the end of vecB it is undefined, NaN as a number.
At(vec, i) == IF i \in DOMAIN vec THEN vec[i] ELSE NaN

Manhattan(vecA, vecB) ==
  LET Term(i) == NAbs(NSub(vecA[i], At(vecB, i)))
      F[i \in 0..Len(vecA)] == IF i = 0 THEN Zero ELSE NAdd(F[i - 1], Term(i))
  IN  F[Len(vecA)]

Chebyshev(vecA, vecB) ==
  LET Term(i) == NAbs(NSub(vecA[i], At(vecB, i)))
      F[i \in 0..Len(vecA)] == IF i = 0 THEN Zero ELSE NMax(F[i - 1], Term(i))
  IN  F[Len(vecA)]

Lance(vecA, vecB) ==
  LET Term(i) == LET denom == NAdd(NAbs(vecA[i]), NAbs(At(vecB, i)))
                 IN  IF denom = Zero THEN Zero
                     ELSE NDiv(NAbs(NSub(vecA[i], At(vecB, i))), denom)
      F[i \in 0..Len(vecA)] == IF i = 0 THEN Zero ELSE NAdd(F[i - 1], Term(i))
  IN  F[Len(vecA)]

Euclidean(vecA, vecB) ==
  LET Term(i) == LET df == NSub(vecA[i], At(vecB, i)) IN NMul(df, df)
      F[i \in 0..Len(vecA)] == IF i = 0 THEN Zero ELSE NAdd(F[i - 1], Term(i))
  IN  NSqrt(F[Len(vecA)])

\* Mutant: the lance denominator forgets |b_i|.
calculateDistance_DenomA(vecA, vecB, type) ==
  IF type = "lance"
  THEN LET Term(i) == LET denom == NAbs(vecA[i])
                      IN  IF denom = Zero THEN Zero
                          ELSE NDiv(NAbs(NSub(vecA[i], At(vecB, i))), denom)
           F[i \in 0..Len(vecA)] == IF i = 0 THEN Zero ELSE NAdd(F[i - 1], Term(i))
       IN  F[Len(vecA)]
  ELSE IF type = "manhattan" THEN Manhattan(vecA, vecB)
  ELSE IF type = "chebyshev" THEN Chebyshev(vecA, vecB)
  ELSE Euclidean(vecA, vecB)

calculateDistance(vecA, vecB, type) ==
  IF type = "manhattan" THEN Manhattan(vecA, vecB)
  ELSE IF type = "chebyshev" THEN Chebyshev(vecA, vecB)
  ELSE IF type = "lance" THEN Lance(vecA, vecB)
  ELSE Euclidean(vecA, vecB)

(* ------------------------ Hierarchical Clusterer ----------------------- *)
ClusterMethods == {"complete", "average", "centroid"}

\* adj.get(n.id)?.find(x => x.id === id): the entries for that neighbour, of
\* which find returns the first (none: undefined).
NeighborHits(list, id) == SelectSeq(list, LAMBDA x : x.id = id)

\* vectors[n.id]: the node's weighted adjacency row, 0 on the diagonal.
\* Mutant: the row keeps the node's own column out (identical rows for a
\* pair that only co-occurs with each other).
HierVectors_NoOwnColumns(ns, ls) ==
  [n \in NodeIds(ns) |-> [j \in 1..Len(ns) |-> Zero]]

HierVectors(ns, ls) ==
  LET adj == getAdjacency(ns, ls, TRUE)
  IN  [n \in NodeIds(ns) |->
         [j \in 1..Len(ns) |->
            IF ns[j].id = n THEN Zero
            ELSE LET found == NeighborHits(adj[n], ns[j].id)
                 IN  IF found # <<>> THEN found[1].weight ELSE Zero]]

InitialClusters(ns, vecs) ==
  [idx \in 1..Len(ns) |->
     [id |-> <<"c_", idx - 1>>,
      members |-> <<ns[idx].id>>,
      vec |-> vecs[ns[idx].id],
      tree |-> [name |-> ns[idx].id, isLeaf |-> TRUE, distance |-> Zero]]]

\* The member-pair distances, c1's members outermost.
PairDists(c1, c2, vecs, type) ==
  [k \in 1..(Len(c1.members) * Len(c2.members)) |->
     LET m1 == c1.members[((k - 1) \div Len(c2.members)) + 1]
         m2 == c2.members[((k - 1) % Len(c2.members)) + 1]
     IN  calculateDistance(vecs[m1], vecs[m2], type)]

\* Math.max(...dists): -Infinity for no argument, NaN if any is NaN.
MathMax(ds) ==
  LET F[i \in 0..Len(ds)] == IF i = 0 THEN NNeg(Inf) ELSE NMax(F[i - 1], ds[i])
  IN  F[Len(ds)]

SumNums(ds) ==
  LET F[i \in 0..Len(ds)] == IF i = 0 THEN Zero ELSE NAdd(F[i - 1], ds[i])
  IN  F[Len(ds)]

getClusterDist(c1, c2, vecs, cfg) ==
  IF cfg.method = "centroid"
  THEN calculateDistance(c1.vec, c2.vec, cfg.distanceType)
  ELSE LET dists == PairDists(c1, c2, vecs, cfg.distanceType)
       IN  IF cfg.method = "complete" THEN MathMax(dists)
           ELSE NDiv(SumNums(dists), Num(Len(dists)))

\* The two nested for loops: the first pair (i, j), i < j, with d < minD.
RECURSIVE ScanPairs(_, _, _, _, _)
ScanPairs(cs, vecs, cfg, ij, best) ==
  LET i == ij[1]
      j == ij[2]
  IN  IF i > Len(cs) THEN best
      ELSE IF j > Len(cs) THEN ScanPairs(cs, vecs, cfg, <<i + 1, i + 2>>, best)
      ELSE LET d == getClusterDist(cs[i], cs[j], vecs, cfg)
           IN  IF NLess(d, best.minD)
               THEN ScanPairs(cs, vecs, cfg, <<i, j + 1>>,
                              [minD |-> d, mergeIdx1 |-> i, mergeIdx2 |-> j])
               ELSE ScanPairs(cs, vecs, cfg, <<i, j + 1>>, best)

\* mergeIdx = 0 stands for the code's -1 (positions here count from 1).
ClosestPair(cs, vecs, cfg) ==
  ScanPairs(cs, vecs, cfg, <<1, 2>>,
            [minD |-> Inf, mergeIdx1 |-> 0, mergeIdx2 |-> 0])

\* Elementwise mean of the members' vectors; [] when the first id is "".
CentroidOf(newMembers, vecs) ==
  IF newMembers[1] # <<>>
  THEN [i \in 1..Len(vecs[newMembers[1]]) |->
          NDiv(SumNums([k \in 1..Len(newMembers) |-> vecs[newMembers[k]][i]]),
               Num(Len(newMembers)))]
  ELSE <<>>

\* Mutant: the new tree node is named by the cluster's time- and random-based id.
MergedCluster_IdAsName(c1, c2, minD, vecs, rnd) ==
  LET newMembers == c1.members \o c2.members
  IN  [id |-> <<"merged_", rnd>>,
       members |-> newMembers,
       vec |-> CentroidOf(newMembers, vecs),
       tree |-> [name |-> <<"merged_", rnd>>, distance |-> minD,
                 children |-> <<c1.tree, c2.tree>>]]

\* Mutant: the new tree node takes the first cluster's tree for both children.
MergedCluster_SameChild(c1, c2, minD, vecs, rnd) ==
  LET newMembers == c1.members \o c2.members
  IN  [id |-> <<"merged_", rnd>>,
       members |-> newMembers,
       vec |-> CentroidOf(newMembers, vecs),
       tree |-> [name |-> <<>>, distance |-> minD,
                 children |-> <<c1.tree, c1.tree>>]]

MergedCluster(c1, c2, minD, vecs, rnd) ==
  LET newMembers == c1.members \o c2.members
  IN  [id |-> <<"merged_", rnd>>,
       members |-> newMembers,
       vec |-> CentroidOf(newMembers, vecs),
       tree |-> [name |-> <<>>, distance |-> minD,
                 children |-> <<c1.tree, c2.tree>>]]

\* clusters.filter(idx not merged), then push(newCluster)
RemoveTwo(cs, i1, i2) ==
  LET keep == SelectSeq([k \in 1..Len(cs) |-> k], LAMBDA k : k # i1 /\ k # i2)
  IN  [k \in 1..Len(keep) |-> cs[keep[k]]]

MergeClusters(cs, best, vecs, rnd) ==
  Append(RemoveTwo(cs, best.mergeIdx1, best.mergeIdx2),
         MergedCluster(cs[best.mergeIdx1], cs[best.mergeIdx2],
                       best.minD, vecs, rnd))

\* clusters[0]?.tree || { name: "Root", children: [] }
RootPlaceholder == [name |-> <<"R", "o", "o", "t">>, children |-> <<>>]
HierResult(cs) == IF Len(cs) > 0 THEN cs[1].tree ELSE RootPlaceholder

(* Dendrogram inspection *)
HasField(t, f) == f \in DOMAIN t
IsLeafNode(t) == HasField(t, "isLeaf") /\ t.isLeaf
ChildrenOf(t) == IF HasField(t, "children") THEN t.children ELSE <<>>

RECURSIVE LeafNames(_)
LeafNames(t) ==
  IF IsLeafNode(t) THEN <<t.name>>
  ELSE LET ch == ChildrenOf(t)
           F[i \in 0..Len(ch)] == IF i = 0 THEN <<>> ELSE F[i - 1] \o LeafNames(ch[i])
       IN  F[Len(ch)]

RECURSIVE InternalCount(_)
InternalCount(t) ==
  IF IsLeafNode(t) THEN 0
  ELSE LET ch == ChildrenOf(t)
           F[i \in 0..Len(ch)] == IF i = 0 THEN 0 ELSE F[i - 1] + InternalCount(ch[i])
       IN  1 + F[Len(ch)]

RECURSIVE AllBinary(_)
AllBinary(t) ==
  IsLeafNode(t) \/
    (Len(ChildrenOf(t)) = 2 /\ \A i \in 1..2 : AllBinary(ChildrenOf(t)[i]))

(* ------------------------- Co-occurrence Builder ----------------------- *)
\* entities.find(e => e.name === name && e.type === type) is truthy
HasEntity(es, name, type) ==
  \E i \in 1..Len(es) : es[i].name = name /\ es[i].type = type

\* entities.find(e => e.name === name)?.type, "undefined" when there is none
TypeOf(es, name) ==
  IF \E i \in 1..Len(es) : es[i].name = name
  THEN es[CHOOSE i \in 1..Len(es) :
              es[i].name = name /\ \A j \in 1..(i - 1) : es[j].name # name].type
  ELSE "undefined"

\* if (!m.has(k)) m.set(k, new Set()); m.get(k).add(v)
Register(m, k, v) ==
  MapSet(m, k, SetAdd(MapGet(m, k, <<>>), v))

\* Lines 524-540: the body of relations.forEach, on st = [c2i, all].
CoocRelation(st, r, es, containerType, itemType) ==
  LET fwd == HasEntity(es, r.source, containerType) /\ HasEntity(es, r.target, itemType)
      st1 == IF fwd
             THEN [c2i |-> Register(st.c2i, r.source, r.target),
                   all |-> SetAdd(st.all, r.target)]
             ELSE st
      rev == HasEntity(es, r.target, containerType) /\ HasEntity(es, r.source, itemType)
  IN  IF rev
      THEN [c2i |-> Register(st1.c2i, r.target, r.source),
            all |-> SetAdd(st1.all, r.source)]
      ELSE st1

RECURSIVE CoocRelations(_, _, _, _, _)
CoocRelations(st, rs, es, containerType, itemType) ==
  IF rs = <<>> THEN st
  ELSE CoocRelations(CoocRelation(st, Head(rs), es, containerType, itemType),
                     Tail(rs), es, containerType, itemType)

\* Line 549: the key of a pair, the smaller string first.
EdgeKey(x, y) == IF StrLess(x, y) THEN PairKey(x, y) ELSE PairKey(y, x)

\* Lines 546-552: the pairs i < j of one container's items.
RECURSIVE CountPairs(_, _, _, _)
CountPairs(edgesMap, arr, i, j) ==
  IF i > Len(arr) THEN edgesMap
  ELSE IF j > Len(arr) THEN CountPairs(edgesMap, arr, i + 1, i + 2)
  ELSE LET k == EdgeKey(arr[i], arr[j])
       IN  CountPairs(MapSet(edgesMap, k, MapGet(edgesMap, k, 0) + 1), arr, i, j + 1)

RECURSIVE CountContainers(_, _)
CountContainers(edgesMap, c2i) ==
  IF c2i = <<>> THEN edgesMap
  ELSE CountContainers(CountPairs(edgesMap, Head(c2i)[2], 1, 2), Tail(c2i))

\* Lines 555-559: one link per key, its ends the first two pieces of the key.
EdgeLink(entry) ==
  LET parts == Split(entry[1])
  IN  [source |-> StrEnd(parts[1]), target |-> StrEnd(parts[2]),
       type |-> "co-occur", weight |-> Num(entry[2])]

generateCooccurrenceGraph(es, rs, containerType, itemType) ==
  LET st == CoocRelations([c2i |-> <<>>, all |-> <<>>], rs, es, containerType, itemType)
      edgesMap == CountContainers(<<>>, st.c2i)
  IN  [nodes |-> [i \in 1..Len(st.all) |-> [id |-> st.all[i], group |-> itemType]],
       links |-> [i \in 1..Len(edgesMap) |-> EdgeLink(edgesMap[i])]]


(* ------------------------ Vector K-Means Clusterer --------------------- *)
\* Array.prototype.sort() on distinct strings: ascending by code units.
RECURSIVE SortStrings(_)
SortStrings(sq) ==
  IF sq = <<>> THEN <<>>
  ELSE LET least == CHOOSE i \in 1..Len(sq) :
                      \A j \in 1..Len(sq) : ~StrLess(sq[j], sq[i])
           rest == [k \in 1..(Len(sq) - 1) |-> IF k < least THEN sq[k] ELSE sq[k + 1]]
       IN  <<sq[least]>> \o SortStrings(rest)

\* Lines 171, 176-179.
TargetNodes(es, targetType) == SelectSeq(es, LAMBDA e : e.type = targetType)
RelevantRelations(es, rs, targetType) ==
  SelectSeq(rs, LAMBDA r : HasEntity(es, r.source, targetType)
                           \/ HasEntity(es, r.target, targetType))

\* Lines 184-194: the body of relevantRelations.forEach, on
\* st = [features, conns].
KMeansRelation(st, r, es, targetType) ==
  LET srcIsTarget == TypeOf(es, r.source) = targetType
      target == IF srcIsTarget THEN r.source ELSE r.target
      feature == IF srcIsTarget THEN r.target ELSE r.source
  IN  [features |-> SetAdd(st.features, feature),
       conns |-> Register(st.conns, target, feature)]

RECURSIVE KMeansRelations(_, _, _, _)
KMeansRelations(st, rs, es, targetType) ==
  IF rs = <<>> THEN st
  ELSE KMeansRelations(KMeansRelation(st, Head(rs), es, targetType),
                       Tail(rs), es, targetType)

\* Line 196: Array.from(features).sort().
KMeansFeatureList(es, rs, targetType) ==
  SortStrings(KMeansRelations([features |-> <<>>, conns |-> <<>>],
                              RelevantRelations(es, rs, targetType),
                              es, targetType).features)

\* Lines 196-202: one 0/1 vector per target node over the sorted features.
KMeansVectors(es, rs, targetType) ==
  LET st == KMeansRelations([features |-> <<>>, conns |-> <<>>],
                            RelevantRelations(es, rs, targetType), es, targetType)
      featureList == SortStrings(st.features)
      targetNodes == TargetNodes(es, targetType)
  IN  [i \in 1..Len(targetNodes) |->
         LET conns == MapGet(st.conns, targetNodes[i].name, <<>>)
         IN  [f \in 1..Len(featureList) |->
                IF featureList[f] \in Range(conns) THEN One ELSE Zero]]

\* Lines 205-206: vectors.slice(0, k), or all the vectors when there are fewer.
InitialCentroids(vs, k) ==
  IF Len(vs) < k THEN vs ELSE SubSeq(vs, 1, Min2(Max2(k, 0), Len(vs)))

\* Lines 216-222: the first centroid at the least distance (position from 0).
NearestCentroid(v, cents) ==
  LET F[ci \in 0..Len(cents)] ==
        IF ci = 0 THEN [minDist |-> Inf, cIdx |-> 0]
        ELSE LET d == Euclidean(v, cents[ci])
             IN  IF NLess(d, F[ci - 1].minDist)
                 THEN [minDist |-> d, cIdx |-> ci - 1]
                 ELSE F[ci - 1]
  IN  F[Len(cents)].cIdx

AssignAll(vs, cents) == [i \in 1..Len(vs) |-> NearestCentroid(vs[i], cents)]

\* Lines 226-235: k new centroids; one with no vector stays the zero vector
\* it was created as.
UpdateCentroids(vs, asg, k, dims) ==
  [c \in 1..k |->
     LET mine == SelectSeq([i \in 1..Len(vs) |-> i], LAMBDA i : asg[i] = c - 1)
         sums == [dim \in 1..dims |->
                    SumNums([m \in 1..Len(mine) |-> vs[mine[m]][dim]])]
     IN  IF Len(mine) > 0
         THEN [dim \in 1..dims |-> NDiv(sums[dim], Num(Len(mine)))]
         ELSE sums]

\* Lines 238-248: result[n.name] = assignments[i], and the annotated nodes.
RECURSIVE KMeansRecord(_, _, _)
KMeansRecord(rec, targetNodes, asg) ==
  IF targetNodes = <<>> THEN rec
  ELSE KMeansRecord(ObjSet(rec, Head(targetNodes).name, Head(asg)),
                    Tail(targetNodes), Tail(asg))

KMeansResult(targetNodes, asg) ==
  LET rec == KMeansRecord(<<>>, targetNodes, asg)
  IN  [result |-> rec,
       nodes |-> [i \in 1..Len(targetNodes) |->
                    [id |-> targetNodes[i].name, group |-> targetNodes[i].type,
                     clusters |-> [kmeans |-> ObjGet(rec, targetNodes[i].name)]]]]

\* The fixed number of assign-then-update rounds (line 214).
KMeansRounds == 10


(* ------------------------ Association Rule Miner ----------------------- *)
\* The decimal digits of a position, as `direct_${idx}` writes it.
Digit(i) ==
  CASE i = 0 -> "0" [] i = 1 -> "1" [] i = 2 -> "2" [] i = 3 -> "3" [] i = 4 -> "4"
    [] i = 5 -> "5" [] i = 6 -> "6" [] i = 7 -> "7" [] i = 8 -> "8" [] i = 9 -> "9"
DirectKey(idx) == <<"d", "i", "r", "e", "c", "t", "_", Digit(idx)>>

\* Lines 333-340: one transaction {source, target} per front -> back relation.
DirectTransactions(es, rs, frontType, backType) ==
  LET F[i \in 0..Len(rs)] ==
        IF i = 0 THEN <<>>
        ELSE IF TypeOf(es, rs[i].source) = frontType
                /\ TypeOf(es, rs[i].target) = backType
             THEN MapSet(F[i - 1], DirectKey(i - 1),
                         SetFrom(<<rs[i].source, rs[i].target>>))
             ELSE F[i - 1]
  IN  F[Len(rs)]

\* Lines 343-354: the targets of every relation source.
ConnectorMap(rs) ==
  LET F[i \in 0..Len(rs)] ==
        IF i = 0 THEN <<>> ELSE Register(F[i - 1], rs[i].source, rs[i].target)
  IN  F[Len(rs)]

\* Lines 356-366: a connector with a front and a back target adds (or
\* replaces) the transaction under its own name.
ConnectorTransactions(trans, cmap, es, frontType, backType) ==
  LET F[i \in 0..Len(cmap)] ==
        IF i = 0 THEN trans
        ELSE LET items == cmap[i][2]
                 fronts == SelectSeq(items, LAMBDA x : TypeOf(es, x) = frontType)
                 backs == SelectSeq(items, LAMBDA x : TypeOf(es, x) = backType)
             IN  IF Len(fronts) > 0 /\ Len(backs) > 0
                 THEN MapSet(F[i - 1], cmap[i][1], SetFrom(fronts \o backs))
                 ELSE F[i - 1]
  IN  F[Len(cmap)]

Transactions(es, rs, frontType, backType) ==
  ConnectorTransactions(DirectTransactions(es, rs, frontType, backType),
                        ConnectorMap(rs), es, frontType, backType)

\* m.set(k, (m.get(k) || 0) + 1) for every k of ks, in order.
RECURSIVE CountUp(_, _)
CountUp(m, ks) ==
  IF ks = <<>> THEN m
  ELSE CountUp(MapSet(m, Head(ks), MapGet(m, Head(ks), 0) + 1), Tail(ks))

\* Lines 379-384: the keys `${f}|${b}` of one transaction, fronts outermost.
PairKeys(arr, es, frontType, backType) ==
  LET fronts == SelectSeq(arr, LAMBDA x : TypeOf(es, x) = frontType)
      backs == SelectSeq(arr, LAMBDA x : TypeOf(es, x) = backType)
  IN  [k \in 1..(Len(fronts) * Len(backs)) |->
         PairKey(fronts[((k - 1) \div Len(backs)) + 1],
                 backs[((k - 1) % Len(backs)) + 1])]

\* Lines 374-385.
ItemCounts(trans) ==
  LET F[i \in 0..Len(trans)] ==
        IF i = 0 THEN <<>> ELSE CountUp(F[i - 1], trans[i][2])
  IN  F[Len(trans)]

PairCounts(trans, es, frontType, backType) ==
  LET F[i \in 0..Len(trans)] ==
        IF i = 0 THEN <<>>
        ELSE CountUp(F[i - 1], PairKeys(trans[i][2], es, frontType, backType))
  IN  F[Len(trans)]

\* Lines 391-399: the numbers of one pair.
RuleOf(entry, itemCounts, totalTrans) ==
  LET parts == Split(entry[1])
      source == parts[1]
      target == parts[2]
      count == entry[2]
      support == NDiv(Num(count), Num(totalTrans))
      supportSource == NDiv(Num(MapGet(itemCounts, source, 0)), Num(totalTrans))
      supportTarget == NDiv(Num(MapGet(itemCounts, target, 0)), Num(totalTrans))
      confidence == NDiv(support, supportSource)
  IN  [source |-> source, target |-> target, support |-> support,
       confidence |-> confidence, lift |-> NDiv(confidence, supportTarget),
       cooccur |-> count]

\* Mutant: the confidence threshold is not applied.
PassesThresholds_SupportOnly(rule, minSupport, minConfidence) ==
  NGeq(rule.support, minSupport)

\* Lines 396-404: both thresholds.
PassesThresholds(rule, minSupport, minConfidence) ==
  NGeq(rule.support, minSupport) /\ NGeq(rule.confidence, minConfidence)

\* Lines 390-405: the rules in the order of pairCounts.
RulesUnsorted(pairCounts, itemCounts, totalTrans, minSupport, minConfidence) ==
  SelectSeq([i \in 1..Len(pairCounts) |-> RuleOf(pairCounts[i], itemCounts, totalTrans)],
            LAMBDA r : PassesThresholds(r, minSupport, minConfidence))

\* Mutant: the comparator is a.lift - b.lift (ascending).
LiftBefore_Ascending(b, a) == NLess(b.lift, a.lift)

\* (a, b) => b.lift - a.lift is positive: b goes before a.  A difference of
\* NaN (two infinite lifts) counts as 0.
LiftBefore(b, a) == NLess(a.lift, b.lift)

\* Line 407: rules.sort((a, b) => b.lift - a.lift), a stable sort.
RECURSIVE SortByLift(_)
SortByLift(rules) ==
  IF rules = <<>> THEN <<>>
  ELSE LET init == SortByLift(SubSeq(rules, 1, Len(rules) - 1))
           x == rules[Len(rules)]
           \* x goes after every element that is not strictly smaller in lift
           pos == Cardinality({i \in 1..Len(init) :
                     \A j \in 1..i : ~LiftBefore(x, init[j])})
       IN  SubSeq(init, 1, pos) \o <<x>> \o SubSeq(init, pos + 1, Len(init))

ZeroMetrics ==
  [degree |-> 0, betweenness |-> 0, closeness |-> 0, kCore |-> 0,
   community |-> 0, clusteringCoeff |-> 0]

\* Lines 401-402, 410-413: the ends of the rules, in the order first added.
RuleNodes(rulesInOrder, es) ==
  LET F[i \in 0..Len(rulesInOrder)] ==
        IF i = 0 THEN <<>>
        ELSE SetAdd(SetAdd(F[i - 1], rulesInOrder[i].source), rulesInOrder[i].target)
      ids == F[Len(rulesInOrder)]
  IN  [i \in 1..Len(ids) |->
         [id |-> ids[i],
          group |-> IF TypeOf(es, ids[i]) = "undefined" THEN "Unknown"
                    ELSE TypeOf(es, ids[i]),
          metrics |-> ZeroMetrics]]

RuleLink(r) ==
  [source |-> StrEnd(r.source), target |-> StrEnd(r.target), type |-> "assoc",
   association |-> [support |-> r.support, confidence |-> r.confidence,
                    lift |-> r.lift, isRule |-> TRUE]]

calculateAssociationRules(es, rs, frontType, backType, minSupport, minConfidence) ==
  LET trans == Transactions(es, rs, frontType, backType)
      totalTrans == Len(trans)
      unsorted == RulesUnsorted(PairCounts(trans, es, frontType, backType),
                                ItemCounts(trans), totalTrans,
                                minSupport, minConfidence)
      rules == SortByLift(unsorted)
  IN  IF totalTrans = 0 THEN [rules |-> <<>>, nodes |-> <<>>, links |-> <<>>]
      ELSE [rules |-> rules,
            nodes |-> RuleNodes(unsorted, es),
            links |-> [i \in 1..Len(rules) |-> RuleLink(rules[i])]]


(* ------------------------- Centrality Calculator ----------------------- *)
\* CB and CC are plain objects keyed by node id (lines 451, 482): written
\* under "__proto__" they keep no entry (a number assigned to that key is
\* ignored) and read under it they give Object.prototype.
OwnKeys(ids) == ids \ {NameProto}
ReadKey(obj, id) == IF id = NameProto THEN ObjectPrototype ELSE obj[id]

\* A val in b.val - a.val: Object.prototype as a number is NaN.
ValNumber(v) == IF v = ObjectPrototype THEN NaN ELSE v

\* Lines 464-468: the edges of v, in order, on the search state st.
RECURSIVE VisitEdges(_, _, _)
VisitEdges(st, v, edges) ==
  IF edges = <<>> THEN st
  ELSE IF Head(edges).id \notin DOMAIN st.d
  THEN \* d[w] is undefined: neither test holds
       VisitEdges(st, v, Tail(edges))
  ELSE LET w == Head(edges).id
           st1 == IF st.d[w] < 0
                  THEN [st EXCEPT !.Q = Append(@, w), !.d[w] = st.d[v] + 1]
                  ELSE st
           st2 == IF st1.d[w] = st1.d[v] + 1
                  THEN [st1 EXCEPT !.sigma[w] = NAdd(@, st1.sigma[v]),
                                   !.P[w] = Append(@, v)]
                  ELSE st1
       IN  VisitEdges(st2, v, Tail(edges))

\* Lines 461-469: while (Q.length > 0).
RECURSIVE BrandesSearch(_, _)
BrandesSearch(st, adj) ==
  IF st.Q = <<>> THEN st
  ELSE LET v == Head(st.Q)
       IN  BrandesSearch(
             VisitEdges([st EXCEPT !.Q = Tail(@), !.S = Append(@, v)], v, adj[v]),
             adj)

\* Line 474: P[w].forEach(v => delta[v] += (sigma[v] / sigma[w]) * (1 + delta[w])).
RECURSIVE SpreadDelta(_, _, _, _)
SpreadDelta(delta, preds, w, sigma) ==
  IF preds = <<>> THEN delta
  ELSE LET v == Head(preds)
       IN  SpreadDelta(
             [delta EXCEPT ![v] = NAdd(@, NMul(NDiv(sigma[v], sigma[w]),
                                               NAdd(One, delta[w])))],
             Tail(preds), w, sigma)

\* Mutant: the source is credited like every other node.
CreditNode_Source(CB, w, s, delta) == [CB EXCEPT ![w] = NAdd(@, delta[w])]

\* Line 475: the source s is not credited.
CreditNode(CB, w, s, delta) ==
  IF w # s THEN [CB EXCEPT ![w] = NAdd(@, delta[w])] ELSE CB

\* Lines 472-476: while (S.length > 0), w = S.pop(); acc carries S, delta
\* and CB.
RECURSIVE Accumulate(_, _, _)
Accumulate(acc, st, s) ==
  IF acc.S = <<>> THEN acc
  ELSE LET w == acc.S[Len(acc.S)]
           delta1 == SpreadDelta(acc.delta, st.P[w], w, st.sigma)
       IN  Accumulate([S |-> SubSeq(acc.S, 1, Len(acc.S) - 1),
                       delta |-> delta1,
                       CB |-> CreditNode(acc.CB, w, s, delta1)],
                      st, s)

\* Lines 453-477: the contribution of source s.  P, sigma, d and delta are
\* objects keyed by node id as well; the inputs of the specifications give a
\* node named "__proto__" no link, so their entries under that key are
\* read only as the empty P[s] of that source.
BrandesFrom(CB, s, ids, adj) ==
  LET st0 == [Q |-> <<s>>, S |-> <<>>,
              P |-> [t \in ids |-> <<>>],
              sigma |-> [t \in ids |-> IF t = s THEN One ELSE Zero],
              d |-> [t \in ids |-> IF t = s THEN 0 ELSE -1]]
      st == BrandesSearch(st0, adj)
  IN  Accumulate([S |-> st.S, delta |-> [t \in ids |-> Zero], CB |-> CB],
                 st, s).CB

calculateBetweenness(ns, adj) ==
  LET ids == NodeIds(ns)
      F[i \in 0..Len(ns)] ==
        IF i = 0 THEN [t \in OwnKeys(ids) |-> Zero]
        ELSE BrandesFrom(F[i - 1], ns[i].id, ids, adj)
  IN  F[Len(ns)]

\* Lines 490-492: the unvisited neighbours of the dequeued entry.
RECURSIVE EnqueueNew(_, _, _)
EnqueueNew(st, edges, dist) ==
  IF edges = <<>> THEN st
  ELSE IF Head(edges).id \in st.visited THEN EnqueueNew(st, Tail(edges), dist)
  ELSE EnqueueNew([st EXCEPT !.visited = @ \cup {Head(edges).id},
                             !.q = Append(@, [id |-> Head(edges).id, d |-> dist + 1])],
                  Tail(edges), dist)

\* Lines 487-493: while (q.length).  An id that is no node has no list.
RECURSIVE ClosenessSearch(_, _)
ClosenessSearch(st, adj) ==
  IF st.q = <<>> THEN st
  ELSE LET cur == Head(st.q)
           st1 == [st EXCEPT !.q = Tail(@),
                             !.total = IF cur.d > 0 THEN @ + cur.d ELSE @,
                             !.count = IF cur.d > 0 THEN @ + 1 ELSE @]
       IN  ClosenessSearch(
             IF cur.id \in DOMAIN adj THEN EnqueueNew(st1, adj[cur.id], cur.d)
             ELSE st1,
             adj)

ClosenessOf(id, adj) ==
  LET st == ClosenessSearch([q |-> <<[id |-> id, d |-> 0]>>, visited |-> {id},
                             total |-> 0, count |-> 0], adj)
  IN  IF st.count > 0 THEN NDiv(Num(st.count), Num(st.total)) ELSE Zero

calculateCloseness(ns, adj) == [id \in OwnKeys(NodeIds(ns)) |-> ClosenessOf(id, adj)]

\* sort((a, b) => b.val - a.val), a stable sort.
RECURSIVE SortByVal(_)
SortByVal(list) ==
  IF list = <<>> THEN <<>>
  ELSE LET init == SortByVal(SubSeq(list, 1, Len(list) - 1))
           x == list[Len(list)]
           pos == Cardinality({i \in 1..Len(init) :
                     \A j \in 1..i : ~NLess(ValNumber(init[j].val), ValNumber(x.val))})
       IN  SubSeq(init, 1, pos) \o <<x>> \o SubSeq(init, pos + 1, Len(init))

\* The number of entries each ranking keeps (lines 442-444).
TopN == 5

\* list.slice(0, 5)
Slice5(list) == SubSeq(list, 1, Min2(TopN, Len(list)))

calculateCentralityRankings(ns, ls) ==
  LET adj == getAdjacency(ns, ls, FALSE)
      CB == calculateBetweenness(ns, adj)
      CC == calculateCloseness(ns, adj)
      degrees == SortByVal([i \in 1..Len(ns) |->
                   [id |-> ns[i].id, val |-> Num(Len(adj[ns[i].id]))]])
      betweens == SortByVal([i \in 1..Len(ns) |-> [id |-> ns[i].id, val |-> ReadKey(CB, ns[i].id)]])
      closes == SortByVal([i \in 1..Len(ns) |-> [id |-> ns[i].id, val |-> ReadKey(CC, ns[i].id)]])
  IN  [degree |-> Slice5(degrees),
       betweenness |-> Slice5(betweens),
       closeness |-> Slice5(closes)]


(* --------------------- Bipartite Community Detector -------------------- *)
\* Lines 260-270: the two-type subgraph, self-loops dropped.
CommunityEntities(es, frontType, backType) ==
  SelectSeq(es, LAMBDA e : e.type = frontType) \o
  SelectSeq(es, LAMBDA e : e.type = backType)

CommunityNodes(es, frontType, backType) ==
  LET both == CommunityEntities(es, frontType, backType)
  IN  [i \in 1..Len(both) |->
         [id |-> both[i].name, group |-> both[i].type, metrics |-> ZeroMetrics]]

CommunityLinks(es, rs, frontType, backType) ==
  LET both == CommunityEntities(es, frontType, backType)
      validNames == {both[i].name : i \in 1..Len(both)}
      validLinks == SelectSeq(rs, LAMBDA r : r.source \in validNames
                                             /\ r.target \in validNames
                                             /\ r.source # r.target)
  IN  [i \in 1..Len(validLinks) |->
         [source |-> StrEnd(validLinks[i].source),
          target |-> StrEnd(validLinks[i].target),
          type |-> validLinks[i].relation]]

\* Line 275: labels[n.id] = i (positions from 0); an id listed twice keeps
\* its place among the keys and takes the later position as its label.
InitialLabels(ns) ==
  LET F[i \in 0..Len(ns)] ==
        IF i = 0 THEN <<>> ELSE ObjSet(F[i - 1], ns[i].id, Num(i - 1))
  IN  F[Len(ns)]

\* Line 285: the labels of the neighbours, in the order of the list.
NeighborLabels(neighbors, lbls) ==
  [i \in 1..Len(neighbors) |-> ObjGet(lbls, neighbors[i].id)]

\* Lines 283-287: counts is an object keyed by String(label).  A key is
\* modelled by the label it is written from (distinct labels give distinct
\* keys: digits, "NaN", "[object Object]").  Object.entries lists the integer
\* keys in ascending order, then the others in the order they were added.
IsIndexKey(l) == l # ObjectPrototype /\ ~IsNaN(l)

RECURSIVE SortLabels(_)
SortLabels(ls) ==
  IF ls = <<>> THEN <<>>
  ELSE LET least == CHOOSE i \in 1..Len(ls) : \A j \in 1..Len(ls) : ls[i][1] <= ls[j][1]
       IN  <<ls[least]>> \o
           SortLabels([j \in 1..(Len(ls) - 1) |-> IF j < least THEN ls[j] ELSE ls[j + 1]])

CountEntries(found) ==
  LET keys == SetFrom(found)
      ordered == SortLabels(SelectSeq(keys, IsIndexKey)) \o
                 SelectSeq(keys, LAMBDA l : ~IsIndexKey(l))
  IN  [i \in 1..Len(ordered) |->
         <<ordered[i], Cardinality({j \in 1..Len(found) : found[j] = ordered[i]})>>]

\* Number(l) of a key of counts (line 290).
NumberOfKey(l) == IF IsIndexKey(l) THEN l ELSE NaN

\* Lines 288-291: the first entry whose count exceeds every count before it.
BestLabel(entries) ==
  LET best == CHOOSE i \in 1..Len(entries) :
                /\ \A j \in 1..Len(entries) : entries[j][2] <= entries[i][2]
                /\ \A j \in 1..(i - 1) : entries[j][2] < entries[i][2]
  IN  NumberOfKey(entries[best][1])

\* !== on two label values (NaN differs from itself).
StrictlyDiffer(x, y) ==
  IF x = ObjectPrototype \/ y = ObjectPrototype THEN x # y
  ELSE IsNaN(x) \/ IsNaN(y) \/ x # y

\* Variant of VisitNode: the label is written without change being set.
VisitNode_SilentChange(st, id, neighbors) ==
  LET bestL == BestLabel(CountEntries(NeighborLabels(neighbors, st.labels)))
  IN  IF StrictlyDiffer(ObjGet(st.labels, id), bestL)
      THEN [labels |-> ObjSet(st.labels, id, bestL), change |-> st.change]
      ELSE st

\* Lines 283-295: the visit of one node that has neighbours; st carries
\* labels and change.
VisitNode(st, id, neighbors) ==
  LET bestL == BestLabel(CountEntries(NeighborLabels(neighbors, st.labels)))
  IN  IF StrictlyDiffer(ObjGet(st.labels, id), bestL)
      THEN [labels |-> ObjSet(st.labels, id, bestL), change |-> TRUE]
      ELSE st

\* Lines 279-296: one pass, the nodes visited in the order drawn for it; a
\* node without neighbours is passed over (line 282).
RECURSIVE VisitAll(_, _, _)
VisitAll(st, order, adj) ==
  IF order = <<>> THEN st
  ELSE IF adj[Head(order).id] = <<>>
  THEN VisitAll(st, Tail(order), adj)
  ELSE VisitAll(VisitNode(st, Head(order).id, adj[Head(order).id]), Tail(order), adj)

\* The orders [...nodes].sort(() => Math.random() - 0.5) can leave: every
\* arrangement of the node list.
VisitOrders(n) == {f \in [1..n -> 1..n] : \A i, j \in 1..n : i # j => f[i] # f[j]}
Shuffled(ns, f) == [i \in 1..Len(ns) |-> ns[f[i]]]

\* The cap on the number of passes (line 277).
MaxPasses == 20

\* Lines 301-306: dense renumbering in the order of Object.values(labels);
\* new Set and Map.get treat NaN as equal to itself; a label that is not in
\* labelMap gives undefined, and undefined || 0 is 0.
CommunityOf(lbls, id) ==
  LET uniqueLabels == SetFrom([i \in 1..Len(lbls) |-> lbls[i][2]])
      l == ObjGet(lbls, id)
      at == {i \in 1..Len(uniqueLabels) : uniqueLabels[i] = l}
  IN  IF at = {} THEN 0 ELSE (CHOOSE i \in at : TRUE) - 1

Remap(ns, lbls) ==
  [i \in 1..Len(ns) |->
     [ns[i] EXCEPT !.metrics.community = CommunityOf(lbls, ns[i].id)]]

(* ===================================================================== *)
(* Specification SpecDist: calculateDistance applied to a pair of        *)
(* equal-length vectors.                                                 *)
(* ===================================================================== *)
\* Components the vectors are drawn from: negative, zero, fractional, positive.
DistValues == {Num(-1), Zero, Rat(1, 2), Num(2)}

InitDist ==
  /\ pc = "dist_call"
  /\ \E len \in 0..MaxDim :
       \E a \in [1..len -> DistValues], b \in [1..len -> DistValues] :
         \E t \in DistanceTypes :
           config = [vecA |-> a, vecB |-> b, type |-> t]
  /\ entities = NoVal /\ relations = NoVal /\ nodes = NoVal /\ links = NoVal
  /\ vectors = NoVal /\ clusters = NoVal /\ centroids = NoVal
  /\ assignments = NoVal /\ iter = 0 /\ labels = NoVal /\ change = FALSE
  /\ result = NoVal /\ session = NoVal /\ precision = Exact

DistCall ==
  /\ pc = "dist_call"
  /\ result' = calculateDistance(config.vecA, config.vecB, config.type)
  /\ pc' = "done"
  /\ UNCHANGED <<precision, session, entities, relations, nodes, links, config, vectors,
                 clusters, centroids, assignments, iter, labels, change>>

NextDist == DistCall

SpecDist == InitDist /\ [][NextDist]_vars

\* C10: for each distance type and equal-length vectors a, b of finite
\* numbers, calculateDistance(a, b) = calculateDistance(b, a), and
\* calculateDistance(a, a) = 0; a lance term with denominator 0 counts 0.
C10_DistanceSymmetricZeroOnSelf ==
  pc = "done" =>
    /\ result = calculateDistance(config.vecB, config.vecA, config.type)
    /\ (config.vecA = config.vecB => result = Zero)
    /\ calculateDistance(config.vecA, config.vecA, config.type) = Zero

\* A lance distance was computed over vectors that share a zero component
\* (denominator 0) and differ elsewhere.
C10_Witness ==
  /\ pc = "done"
  /\ config.type = "lance"
  /\ \E i \in 1..Len(config.vecA) : config.vecA[i] = Zero /\ config.vecB[i] = Zero
  /\ config.vecA # config.vecB
  /\ result # Zero

(* ===================================================================== *)
(* Specification SpecHier: calculateHierarchicalTree on a graph given     *)
(* directly (runAlgorithm('HIERARCHICAL', data, params)).                 *)
(* ===================================================================== *)
NameA == <<"a">>
NameB == <<"b">>
NameC == <<"c">>
NameD == <<"d">>
NameE == <<"e">>

\* Node ids in input order; a call gets a prefix of this list.
HierNodeList == <<NameA, NameB, NameC, NameD, NameE>>

\* Candidate links; a call gets a subsequence.  They cover: a missing weight,
\* a weight of 0, endpoints resolved to node objects, a link to an id that may
\* not be a node, a second link for the same pair, a self-loop, and a weight
\* of Infinity.
HierLinkPool ==
  << [source |-> StrEnd(NameA), target |-> StrEnd(NameB), weight |-> NoWeight],
     [source |-> StrEnd(NameB), target |-> StrEnd(NameC), weight |-> Num(2)],
     [source |-> ObjEnd(NameC), target |-> ObjEnd(NameA), weight |-> Num(3)],
     [source |-> StrEnd(NameD), target |-> StrEnd(NameA), weight |-> Num(1)],
     [source |-> StrEnd(NameC), target |-> StrEnd(NameC), weight |-> Num(2)],
     [source |-> ObjEnd(NameC), target |-> ObjEnd(NameB), weight |-> Zero],
     [source |-> StrEnd(NameA), target |-> StrEnd(NameC), weight |-> Inf] >>

\* Every link weight that is a number is finite.
FiniteWeights(ls) ==
  \A i \in 1..Len(ls) : ls[i].weight = NoWeight \/ IsFinite(ls[i].weight)

\* The subsequence of pool at the positions in S.
SubSeqAt(pool, S) ==
  LET keep == SelectSeq([k \in 1..Len(pool) |-> k], LAMBDA k : k \in S)
  IN  [k \in 1..Len(keep) |-> pool[keep[k]]]

\* What Date.now() and Math.random() contribute to a merged cluster's id.
RandomDraws == {0, 1}

InitHier ==
  /\ pc = "hier_call"
  /\ \E n \in 0..MaxHierNodes :
       nodes = [i \in 1..n |-> [id |-> HierNodeList[i]]]
  /\ \E S \in SUBSET (1..Len(HierLinkPool)) : links = SubSeqAt(HierLinkPool, S)
  /\ \E t \in DistanceTypes, m \in ClusterMethods :
       config = [distanceType |-> t, method |-> m]
  /\ entities = NoVal /\ relations = NoVal
  /\ vectors = NoVal /\ clusters = NoVal /\ centroids = NoVal
  /\ assignments = NoVal /\ iter = 0 /\ labels = NoVal /\ change = FALSE
  /\ result = NoVal /\ session = NoVal /\ precision = Exact

\* Lines 71-91: the vectors and the singleton clusters.
HierStart ==
  /\ pc = "hier_call"
  /\ vectors' = HierVectors(nodes, links)
  /\ clusters' = InitialClusters(nodes, vectors')
  /\ pc' = "hier_loop"
  /\ UNCHANGED <<precision, session, entities, relations, nodes, links, config,
                 centroids, assignments, iter, labels, change, result>>

\* The loop goes on: more than one cluster, and a closest pair was found.
LoopMerges(cs, best) == Len(cs) > 1 /\ best.mergeIdx1 # 0

\* Lines 113-157: one round of the while loop.
HierMerge ==
  /\ pc = "hier_loop"
  /\ LET best == ClosestPair(clusters, vectors, config)
     IN  /\ LoopMerges(clusters, best)
         /\ \E rnd \in RandomDraws :
              clusters' = MergeClusters(clusters, best, vectors, rnd)
  /\ UNCHANGED <<precision, session, pc, entities, relations, nodes, links, config, vectors,
                 centroids, assignments, iter, labels, change, result>>

\* Mutant: 'return clusters[0].tree', which throws when there is no cluster.
HierReturn_NoFallback ==
  /\ pc = "hier_loop"
  /\ ~LoopMerges(clusters, ClosestPair(clusters, vectors, config))
  /\ IF Len(clusters) > 0
     THEN result' = clusters[1].tree /\ pc' = "done"
     ELSE result' = result /\ pc' = "raised"
  /\ UNCHANGED <<precision, session, entities, relations, nodes, links, config, vectors,
                 clusters, centroids, assignments, iter, labels, change>>

\* Lines 113, 130, 159: the loop ends (one cluster left, none at all, or the
\* break) and the first cluster's tree is returned.
HierReturn ==
  /\ pc = "hier_loop"
  /\ ~LoopMerges(clusters, ClosestPair(clusters, vectors, config))
  /\ result' = HierResult(clusters)
  /\ pc' = "done"
  /\ UNCHANGED <<precision, session, entities, relations, nodes, links, config, vectors,
                 clusters, centroids, assignments, iter, labels, change>>

NextHier == HierStart \/ HierMerge \/ HierReturn

SpecHier == InitHier /\ [][NextHier]_vars

InputIds == [i \in 1..Len(nodes) |-> nodes[i].id]

\* The tree has n leaves and n-1 internal nodes, all internal nodes have two
\* children, and every input id names exactly one leaf.
TreeShapeFor(t, ids) ==
  /\ Len(LeafNames(t)) = Len(ids)
  /\ InternalCount(t) = Len(ids) - 1
  /\ AllBinary(t)
  /\ \A i \in 1..Len(ids) :
       Cardinality({k \in 1..Len(LeafNames(t)) : LeafNames(t)[k] = ids[i]}) = 1

\* C1 (as stated): for every input of n nodes with distinct ids, the returned
\* tree has n leaves, n-1 internal nodes, only binary internal nodes, and each
\* input id as the name of exactly one leaf.
C1_Original == pc = "done" => TreeShapeFor(result, InputIds)

\* C1 (amended): the same for every input of n >= 1 nodes with distinct ids
\* and finite link weights.
C1_TreeShape ==
  (pc = "done" /\ Len(nodes) >= 1 /\ FiniteWeights(links))
    => TreeShapeFor(result, InputIds)

\* With a weight of Infinity the loop can end by its break, with clusters left.
BreakTaken ==
  /\ pc = "done" /\ Len(clusters) > 1 /\ ~FiniteWeights(links)

\* A tree over three nodes was returned after two merges.
C1_Witness ==
  /\ pc = "done"
  /\ Len(nodes) = 3
  /\ links # <<>>
  /\ InternalCount(result) = 2

(* ===================================================================== *)
(* Specification SpecMerge: the merge loop of calculateHierarchicalTree   *)
(* on one to MaxMergeNodes nodes with finite link weights.                *)
(* ===================================================================== *)
\* The empty string, a node id like any other.
NameEmpty == <<>>

\* Node ids; a call gets a prefix of this list, as listed or reversed.
MergeNodeList == <<NameEmpty, NameB, NameC, NameD, NameE>>

\* Candidate links, all of finite weight; a call gets a subsequence.
MergeLinkPool ==
  << [source |-> StrEnd(NameC), target |-> StrEnd(NameD), weight |-> Num(2)],
     [source |-> StrEnd(NameEmpty), target |-> StrEnd(NameC), weight |-> NoWeight],
     [source |-> StrEnd(NameB), target |-> StrEnd(NameD), weight |-> Num(3)] >>

InitMerge ==
  /\ pc = "hier_call"
  /\ \E n \in 1..MaxMergeNodes, rev \in BOOLEAN :
       LET pre == [i \in 1..n |-> [id |-> MergeNodeList[i]]]
       IN  nodes = IF rev THEN Reverse(pre) ELSE pre
  /\ \E S \in SUBSET (1..Len(MergeLinkPool)) : links = SubSeqAt(MergeLinkPool, S)
  /\ \E t \in DistanceTypes, m \in ClusterMethods :
       config = [distanceType |-> t, method |-> m]
  /\ entities = NoVal /\ relations = NoVal
  /\ vectors = NoVal /\ clusters = NoVal /\ centroids = NoVal
  /\ assignments = NoVal /\ iter = 0 /\ labels = NoVal /\ change = FALSE
  /\ result = NoVal /\ session = NoVal /\ precision = Exact

NextMerge == HierStart \/ HierMerge \/ HierReturn

SpecMerge == InitMerge /\ [][NextMerge]_vars

\* A merge leaves one cluster less, and the loop is left with a single
\* cluster, whose tree, of n-1 internal nodes, is the result.
MergesDownToOne ==
  /\ HierMerge => Len(clusters') = Len(clusters) - 1
  /\ HierReturn =>
       /\ Len(clusters) = 1
       /\ result' = clusters[1].tree
       /\ InternalCount(result') = Len(nodes) - 1

\* C15 (as stated): for n >= 1 nodes with finite link weights the merge loop
\* ends after exactly n-1 merges: every iteration finds a pair (the break on
\* mergeIdx1 === -1 is never taken) and leaves one cluster less, and the
\* result is the tree of the single remaining cluster.
C15_Original ==
  [][(Len(nodes) >= 1 /\ FiniteWeights(links)) => MergesDownToOne]_vars

\* No node has the empty string as its id.
NoEmptyId == \A i \in 1..Len(nodes) : nodes[i].id # NameEmpty

\* What the code does keep: the same when no node id is the empty string or
\* the method is not centroid.
C15_NamedNodes ==
  [][(Len(nodes) >= 1 /\ FiniteWeights(links)
        /\ (NoEmptyId \/ config.method # "centroid")) => MergesDownToOne]_vars

\* The loop was left by its break: finite weights, more than one cluster
\* left, and the result is the tree of the first of them.
C15_BreakOnFiniteWeights ==
  /\ pc = "done" /\ FiniteWeights(links)
  /\ Len(clusters) > 1
  /\ result = clusters[1].tree

\* The mean of the members' vectors, component by component.
MeanVector(members) ==
  [i \in 1..Len(nodes) |->
     NDiv(SumNums([k \in 1..Len(members) |-> vectors[members[k]][i]]),
          Num(Len(members)))]

\* The linkage distance of two clusters as the methods are defined: complete
\* = the largest member-pair distance, average = the mean member-pair
\* distance, centroid = the distance between the two mean vectors.
Linkage(c1, c2) ==
  LET pairs == {<<m1, m2>> : m1 \in Range(c1.members), m2 \in Range(c2.members)}
      D(pr) == calculateDistance(vectors[pr[1]], vectors[pr[2]], config.distanceType)
  IN  IF config.method = "centroid"
      THEN calculateDistance(MeanVector(c1.members), MeanVector(c2.members),
                             config.distanceType)
      ELSE IF config.method = "complete"
      THEN CHOOSE d \in {D(pr) : pr \in pairs} :
             \A pr \in pairs : ~NLess(d, D(pr))
      ELSE NDiv(SumNums(PairDists(c1, c2, vectors, config.distanceType)),
                Num(Cardinality(pairs)))

\* The pairs (i, j), i < j, of positions in the cluster list, and their order.
ClusterPairs == {ij \in (1..Len(clusters)) \X (1..Len(clusters)) : ij[1] < ij[2]}
PairBefore(pq, ij) == pq[1] < ij[1] \/ (pq[1] = ij[1] /\ pq[2] < ij[2])

\* The step merged the first pair of least linkage distance: the new cluster
\* is last in the list, behind the others in their order, and its tree node
\* has that distance and the two clusters' trees as children.
MergedFirstClosestPair ==
  \E ij \in ClusterPairs :
    LET least == Linkage(clusters[ij[1]], clusters[ij[2]])
        new == clusters'[Len(clusters')]
    IN  /\ \A pq \in ClusterPairs :
             LET d == Linkage(clusters[pq[1]], clusters[pq[2]])
             IN  IF PairBefore(pq, ij) THEN NLess(least, d) ELSE ~NLess(d, least)
        /\ new.tree.distance = least
        /\ new.tree.children = <<clusters[ij[1]].tree, clusters[ij[2]].tree>>
        /\ SubSeq(clusters', 1, Len(clusters') - 1) = RemoveTwo(clusters, ij[1], ij[2])

\* The cluster list starts as the nodes, one each, in input order.
StartsInInputOrder ==
  /\ Len(clusters') = Len(nodes)
  /\ \A i \in 1..Len(nodes) : clusters'[i].members = <<nodes[i].id>>

\* C16 (as stated): at every merge step the merged pair has the least linkage
\* distance over all pairs of current clusters (complete = max member-pair
\* distance, average = mean member-pair distance, centroid = distance
\* between the mean vectors); among pairs tied at the least distance the
\* first in (i, j), i < j, order over the cluster list wins, the list being
\* the input node order with each merged cluster appended at the end; the new
\* internal node has that distance and the children [tree i, tree j].
C16_Original ==
  [][/\ HierStart => StartsInInputOrder
     /\ HierMerge => MergedFirstClosestPair]_vars

\* What the code does keep: the same when no node id is the empty string or
\* the method is not centroid.
C16_NamedNodes ==
  [][(NoEmptyId \/ config.method # "centroid") =>
       /\ HierStart => StartsInInputOrder
       /\ HierMerge => MergedFirstClosestPair]_vars

\* A merged cluster whose first member is the empty id was merged again:
\* the result holds all four nodes, one of them named "".
C16_EmptyIdMergedTwice ==
  /\ pc = "done" /\ config.method = "centroid"
  /\ Len(nodes) = 4 /\ nodes[1].id = NameEmpty
  /\ Len(clusters) = 1 /\ links # <<>>

\* Every internal node of t has a distance that is no less than the
\* distance of each of its children.
RECURSIVE NoInversion(_)
NoInversion(t) ==
  \A i \in 1..Len(ChildrenOf(t)) :
    /\ NGeq(t.distance, ChildrenOf(t)[i].distance)
    /\ NoInversion(ChildrenOf(t)[i])

CompleteOrAverage == config.method \in {"complete", "average"}

\* A step that merges two clusters records a distance that is no less than
\* the distance recorded by any merge before it.
MergesNoCloser ==
  (pc = "hier_loop" /\ pc' = "hier_loop" /\ Len(clusters') < Len(clusters)) =>
    \A i \in 1..Len(clusters) :
      NGeq(clusters'[Len(clusters')].tree.distance, clusters[i].tree.distance)

\* C28, under the merge loop in exact arithmetic and under the method
\* complete in any arithmetic: no merge is recorded at a distance below the
\* distance of a merge before it.
C28_ExactOrComplete ==
  [][(CompleteOrAverage /\ (precision = Exact \/ config.method = "complete"))
       => MergesNoCloser]_vars

\* A tree of three merges at growing distances was returned.
C28_Witness ==
  /\ pc = "done" /\ CompleteOrAverage
  /\ InternalCount(result) = 3
  /\ \E i \in 1..2 :
       /\ ~IsLeafNode(result.children[i])
       /\ NLess(result.children[i].distance, result.distance)
       /\ \E j \in 1..2 :
            /\ ~IsLeafNode(result.children[i].children[j])
            /\ NLess(result.children[i].children[j].distance,
                     result.children[i].distance)

(* ===================================================================== *)
(* Specification SpecCooc: generateCooccurrenceGraph on raw entities and  *)
(* relations, then calculateHierarchicalTree on the graph it built        *)
(* (App.handleRunAlgorithm).                                              *)
(* ===================================================================== *)
NameX == <<"x">>
NameY == <<"y">>
NameAB == <<"a", "|", "b">>

Entity(t, n) == [type |-> t, name |-> n]
Relation(s, t) == [source |-> s, relation |-> "rel", target |-> t]

\* Two containers (type "C") and four items (type "I"), one of them with the
\* character '|' in its name.
CoocEntities ==
  << Entity("I", NameA), Entity("I", NameB), Entity("C", NameX),
     Entity("I", NameC), Entity("C", NameY), Entity("I", NameAB) >>

\* Candidate relations; a call gets a subsequence, as listed or reversed.
CoocRelationPool ==
  << Relation(NameX, NameA), Relation(NameB, NameX), Relation(NameX, NameB),
     Relation(NameB, NameY), Relation(NameY, NameC), Relation(NameA, NameB),
     Relation(NameX, NameAB) >>


\* The (containerType, itemType) pairs a call is configured with.
CoocTypePairs == {<<"C", "I">>, <<"I", "I">>}

\* The clustering configurations the tree is then built with.
CoocHierConfigs ==
  { [distanceType |-> "euclidean", method |-> "complete"],
    [distanceType |-> "manhattan", method |-> "average"] }

InitCooc ==
  /\ pc = "cooc_call"
  /\ entities = CoocEntities
  /\ \E S \in SUBSET (1..Len(CoocRelationPool)), rev \in BOOLEAN :
       relations = IF rev THEN Reverse(SubSeqAt(CoocRelationPool, S))
                          ELSE SubSeqAt(CoocRelationPool, S)
  /\ \E tp \in CoocTypePairs, hc \in CoocHierConfigs :
       config = [containerType |-> tp[1], itemType |-> tp[2],
                 distanceType |-> hc.distanceType, method |-> hc.method]
  /\ nodes = NoVal /\ links = NoVal
  /\ vectors = NoVal /\ clusters = NoVal /\ centroids = NoVal
  /\ assignments = NoVal /\ iter = 0 /\ labels = NoVal /\ change = FALSE
  /\ result = NoVal /\ session = NoVal /\ precision = Exact

\* App.tsx line 233: baseData = generateCooccurrenceGraph(...), handed on to
\* runAlgorithm('HIERARCHICAL', baseData, ...).
CoocCall ==
  /\ pc = "cooc_call"
  /\ result' = generateCooccurrenceGraph(entities, relations,
                                         config.containerType, config.itemType)
  /\ nodes' = result'.nodes
  /\ links' = result'.links
  /\ pc' = "hier_call"
  /\ UNCHANGED <<precision, session, entities, relations, config, vectors,
                 clusters, centroids, assignments, iter, labels, change>>

NextCooc == CoocCall \/ HierStart \/ HierMerge \/ HierReturn

SpecCooc == InitCooc /\ [][NextCooc]_vars

EntityNames == {entities[i].name : i \in 1..Len(entities)}

\* Item x is registered under container c by some relation, in either direction.
RegisteredUnder(c, x) ==
  /\ \E i \in 1..Len(entities) :
       entities[i].name = c /\ entities[i].type = config.containerType
  /\ \E i \in 1..Len(entities) :
       entities[i].name = x /\ entities[i].type = config.itemType
  /\ \E i \in 1..Len(relations) :
       \/ relations[i].source = c /\ relations[i].target = x
       \/ relations[i].source = x /\ relations[i].target = c

CommonContainers(x, y) ==
  {c \in EntityNames : RegisteredUnder(c, x) /\ RegisteredUnder(c, y)}

LinkEnds(l) == {EndpointId(l.source), EndpointId(l.target)}

\* One link per co-occurring pair, weighted by its common containers, and no
\* other link.
CoocLinksExact ==
  /\ \A x, y \in EntityNames :
       (x # y /\ CommonContainers(x, y) # {}) =>
         /\ Cardinality({i \in 1..Len(links) : LinkEnds(links[i]) = {x, y}}) = 1
         /\ \A i \in 1..Len(links) :
              LinkEnds(links[i]) = {x, y} =>
                links[i].weight = Num(Cardinality(CommonContainers(x, y)))
  /\ \A i \in 1..Len(links) :
       \E x, y \in EntityNames :
         /\ x # y
         /\ EndpointId(links[i].source) = x /\ EndpointId(links[i].target) = y
         /\ CommonContainers(x, y) # {}

ContainsBar(x) == "|" \in Range(x)

\* C8 (as stated): generateCooccurrenceGraph outputs exactly one link per
\* unordered pair of distinct items registered under a common container, with
\* weight = the number of such containers, and no other link, whatever the
\* order and direction of the relations.
C8_Original == pc # "cooc_call" => CoocLinksExact

\* C8, when no registered item has the character '|' in its name.
C8_BarFreeNames ==
  (pc # "cooc_call"
     /\ \A c, x \in EntityNames : RegisteredUnder(c, x) => ~ContainsBar(x))
    => CoocLinksExact

\* Exactly two items are registered, both under the same single container,
\* and their names are free of the key separator '|' (as in the scenario).
TwoItemsOneContainer ==
  \E c, x, y \in EntityNames :
    /\ x # y /\ ~ContainsBar(x) /\ ~ContainsBar(y)
    /\ \A d, z \in EntityNames : RegisteredUnder(d, z) <=> (d = c /\ z \in {x, y})

EuclideanComplete == config.distanceType = "euclidean" /\ config.method = "complete"

\* C2 (as stated): two items linked to the same single container, euclidean
\* and complete: exactly one merge, and the root's distance is 0.
C2_Original ==
  (pc = "done" /\ TwoItemsOneContainer /\ EuclideanComplete) =>
    /\ InternalCount(result) = 1
    /\ result.distance = Zero

\* C2 (amended): exactly one merge, and the root's distance is sqrt(2), the
\* distance of the rows [0, 1] and [1, 0] (here to the precision 1/SqrtScale).
C2_OneMergeAtSqrt2 ==
  (pc = "done" /\ TwoItemsOneContainer /\ EuclideanComplete) =>
    /\ InternalCount(result) = 1
    /\ Len(LeafNames(result)) = 2
    /\ LET d == result.distance
           up == NAdd(d, Rat(1, SqrtScale))
       IN  /\ NGeq(Num(2), NMul(d, d))
           /\ NLess(Num(2), NMul(up, up))

\* The scenario ran to its end: two item nodes, one link of weight 1, one merge.
C2_Witness ==
  /\ pc = "done" /\ TwoItemsOneContainer /\ EuclideanComplete
  /\ Len(nodes) = 2 /\ Len(links) = 1 /\ links[1].weight = One
  /\ InternalCount(result) = 1

\* The entities registered as an item under some container, and those some
\* item is registered under.
RegisteredItems == {x \in EntityNames : \E c \in EntityNames : RegisteredUnder(c, x)}
ServedAsContainer == {c \in EntityNames : \E x \in EntityNames : RegisteredUnder(c, x)}

\* The node list is the registered items, each once, in the item group.
NodesAreRegisteredItems ==
  /\ NodeIds(nodes) = RegisteredItems
  /\ \A i, j \in 1..Len(nodes) : nodes[i].id = nodes[j].id => i = j
  /\ \A i \in 1..Len(nodes) : nodes[i].group = config.itemType

NoContainerAmongNodes == NodeIds(nodes) \cap ServedAsContainer = {}

LinksJoinDistinctNodes ==
  \A i \in 1..Len(links) :
    /\ LinkEnds(links[i]) \subseteq NodeIds(nodes)
    /\ EndpointId(links[i].source) # EndpointId(links[i].target)

\* C27 (as stated): the node list of generateCooccurrenceGraph is exactly the
\* entities registered as an item under some container (by a relation from
\* the container to the item or from the item to the container), each once
\* and with group = itemType; an entity that served as a container is never
\* a node; the two ends of every output link are different ids of the node
\* list.
C27_Original ==
  pc # "cooc_call" =>
    (NodesAreRegisteredItems /\ NoContainerAmongNodes /\ LinksJoinDistinctNodes)

\* What the code does keep: the node list as stated for every input, no
\* container among the nodes when containerType differs from itemType, and
\* the links as stated when no registered item has '|' in its name.
C27_TwoTypesBarFree ==
  pc # "cooc_call" =>
    /\ NodesAreRegisteredItems
    /\ config.containerType # config.itemType => NoContainerAmongNodes
    /\ (\A x \in RegisteredItems : ~ContainsBar(x)) => LinksJoinDistinctNodes

\* The items a and a|b, registered under the container x, gave a link from
\* a to a.
C27_LinkFromAToA ==
  /\ pc = "hier_call"
  /\ config.containerType = "C"
  /\ NodeIds(nodes) = {NameA, NameAB}
  /\ Len(links) = 1
  /\ EndpointId(links[1].source) = NameA /\ EndpointId(links[1].target) = NameA

\* Three items under two containers of another type gave three nodes and
\* links between them.
C27_Witness ==
  /\ pc = "hier_call"
  /\ config.containerType # config.itemType
  /\ \A x \in RegisteredItems : ~ContainsBar(x)
  /\ Len(nodes) = 3 /\ Len(links) >= 2
  /\ Cardinality(ServedAsContainer) = 2

(* ===================================================================== *)
(* Specification SpecKMeans: calculateVectorKMeans.                       *)
(* ===================================================================== *)
\* Three entities of type "T", two of type "U" (one named "__proto__"), two
\* of type "F".
KMeansEntities ==
  << Entity("T", NameA), Entity("F", NameX), Entity("T", NameB),
     Entity("F", NameY), Entity("T", NameC), Entity("U", NameD),
     Entity("U", NameProto) >>

\* Candidate relations; a call gets a subsequence.
KMeansRelationPool ==
  << Relation(NameA, NameX), Relation(NameB, NameX), Relation(NameY, NameB),
     Relation(NameC, NameY), Relation(NameA, NameB), Relation(NameD, NameX),
     Relation(NameY, NameProto) >>

\* Target types: three entities, two entities, no entity.
KMeansTargetTypes == {"T", "U", "V"}

InitKMeans ==
  /\ pc = "kmeans_call"
  /\ entities = KMeansEntities
  /\ \E S \in SUBSET (1..Len(KMeansRelationPool)) :
       relations = SubSeqAt(KMeansRelationPool, S)
  /\ \E t \in KMeansTargetTypes, k \in 1..MaxK :
       config = [targetType |-> t, k |-> k]
  /\ nodes = NoVal /\ links = NoVal
  /\ vectors = NoVal /\ clusters = NoVal /\ centroids = NoVal
  /\ assignments = NoVal /\ iter = 0 /\ labels = NoVal /\ change = FALSE
  /\ result = NoVal /\ session = NoVal /\ precision = Exact

\* Lines 171-208: no target entity returns at once; otherwise the vectors,
\* the first centroids and the all-zero assignments.
KMeansStart ==
  /\ pc = "kmeans_call"
  /\ IF TargetNodes(entities, config.targetType) = <<>>
     THEN /\ result' = [result |-> <<>>, nodes |-> <<>>]
          /\ pc' = "done"
          /\ UNCHANGED <<vectors, centroids, assignments>>
     ELSE /\ vectors' = KMeansVectors(entities, relations, config.targetType)
          /\ centroids' = InitialCentroids(vectors', config.k)
          /\ assignments' = [i \in 1..Len(vectors') |-> 0]
          /\ pc' = "kmeans_loop"
          /\ UNCHANGED result
  /\ iter' = 0
  /\ UNCHANGED <<precision, session, entities, relations, nodes, links, config, clusters, labels, change>>

\* Line 229: newCentroids[cIdx][dim] += val.  With k = 0 there is no
\* newCentroids[0], and the read of [dim] on undefined throws for the first
\* vector that has a component.
RoundRaises == config.k = 0 /\ Len(vectors) > 0 /\ Len(vectors[1]) > 0

KMeansRaise ==
  /\ pc = "kmeans_loop"
  /\ iter < KMeansRounds
  /\ RoundRaises
  /\ pc' = "raised"
  /\ UNCHANGED <<precision, session, entities, relations, nodes, links, config, vectors,
                 clusters, centroids, assignments, iter, labels, change, result>>

\* Lines 214-236: one round, assignment then centroid update.
KMeansRound ==
  /\ pc = "kmeans_loop"
  /\ iter < KMeansRounds
  /\ ~RoundRaises
  /\ assignments' = AssignAll(vectors, centroids)
  /\ centroids' = UpdateCentroids(vectors, assignments', config.k,
                                   IF Len(vectors) > 0 THEN Len(vectors[1]) ELSE 0)
  /\ iter' = iter + 1
  /\ UNCHANGED <<precision, session, pc, entities, relations, nodes, links, config, vectors,
                 clusters, labels, change, result>>

\* Mutant of KMeansReturn: the loop is left as soon as a round would change
\* no assignment.
KMeansReturn_AtFixpoint ==
  /\ pc = "kmeans_loop"
  /\ (iter >= KMeansRounds \/ assignments = AssignAll(vectors, centroids))
  /\ result' = KMeansResult(TargetNodes(entities, config.targetType), assignments)
  /\ pc' = "done"
  /\ UNCHANGED <<precision, session, entities, relations, nodes, links, config, vectors,
                 clusters, centroids, assignments, iter, labels, change>>

\* Lines 238-248.
KMeansReturn ==
  /\ pc = "kmeans_loop"
  /\ iter >= KMeansRounds
  /\ result' = KMeansResult(TargetNodes(entities, config.targetType), assignments)
  /\ pc' = "done"
  /\ UNCHANGED <<precision, session, entities, relations, nodes, links, config, vectors,
                 clusters, centroids, assignments, iter, labels, change>>

NextKMeans == KMeansStart \/ KMeansRound \/ KMeansReturn

SpecKMeans == InitKMeans /\ [][NextKMeans]_vars

TargetCount == Len(TargetNodes(entities, config.targetType))

\* The entries of the returned result object for a name.
ResultEntries(name) ==
  {j \in 1..Len(result.result) : result.result[j][1] = name}

\* The entry for a name is one cluster index in [0, min(k, n)), 0 when k = 1.
OneIndexInRange(name) ==
  /\ Cardinality(ResultEntries(name)) = 1
  /\ \A j \in ResultEntries(name) :
       /\ result.result[j][2] \in 0..(Min2(config.k, TargetCount) - 1)
       /\ (config.k = 1 => result.result[j][2] = 0)

\* C3: with n >= 1 target entities (distinct names) and an integer k >= 1,
\* every target entity gets exactly one cluster index, in [0, min(k, n));
\* with k = 1 every entity gets cluster 0.
C3_Original ==
  (pc = "done" /\ TargetCount >= 1) =>
    \A i \in 1..Len(entities) :
      entities[i].type = config.targetType => OneIndexInRange(entities[i].name)

\* What the code does keep: the same for the target entities not named
\* "__proto__".
C3_OwnNamesInRange ==
  (pc = "done" /\ TargetCount >= 1) =>
    \A i \in 1..Len(entities) :
      (entities[i].type = config.targetType /\ entities[i].name # NameProto) =>
        OneIndexInRange(entities[i].name)

\* A run with fewer target entities than k that ended with two different
\* cluster indices.
C3_FewerThanK ==
  /\ pc = "done"
  /\ TargetCount >= 2 /\ TargetCount < config.k
  /\ \E i, j \in 1..Len(assignments) : assignments[i] # assignments[j]

\* The clusters that the round being taken assigns no vector to.
EmptyAfterRound ==
  {c \in 1..Len(centroids') : \A i \in 1..Len(assignments') : assignments'[i] # c - 1}

\* C17 (as stated): a k-means cluster with zero vectors assigned to it in a
\* round keeps its centroid: the centroid after the round equals the centroid
\* before it.
C17_Original ==
  [][KMeansRound =>
       \A c \in EmptyAfterRound :
         c <= Len(centroids) => centroids'[c] = centroids[c]]_vars

\* What the code does with such a cluster: its centroid after the round is
\* the zero vector, whatever it was before.
C17_EmptyBecomesZero ==
  [][KMeansRound =>
       \A c \in EmptyAfterRound :
         \A dim \in 1..Len(centroids'[c]) : centroids'[c][dim] = Zero]_vars

\* After a round some cluster has no vector and the zero vector as centroid,
\* and some vector has a non-zero component.
C17_EmptyCluster ==
  /\ pc = "kmeans_loop" /\ iter >= 1
  /\ \E c \in 1..Len(centroids) :
       /\ \A i \in 1..Len(assignments) : assignments[i] # c - 1
       /\ \E dim \in 1..Len(centroids[c]) : TRUE
       /\ \A dim \in 1..Len(centroids[c]) : centroids[c][dim] = Zero
  /\ \E i \in 1..Len(vectors) : \E dim \in 1..Len(vectors[i]) : vectors[i][dim] = One

\* The first min(k, n) of the vectors.
FirstVectors(vs, k) == SubSeq(vs, 1, Min2(k, Len(vs)))

\* C18 (as stated): with at least one target entity, k-means starts from the
\* first min(k, n) vectors as centroids and performs exactly 10
\* assign-then-update rounds, with no early exit; once a round leaves all
\* assignments unchanged, every later round also leaves them unchanged.
C18_Original ==
  [][/\ (KMeansStart /\ pc' = "kmeans_loop") =>
          (iter' = 0 /\ centroids' = FirstVectors(vectors', config.k))
     /\ KMeansReturn => iter = KMeansRounds
     /\ (KMeansRound /\ assignments' = assignments) =>
          AssignAll(vectors, centroids') = assignments']_vars

\* C18, with the last part for the rounds after the first: once a round
\* other than the first leaves all assignments unchanged, the next round
\* (and so every later one) leaves them unchanged.  The first round starts
\* from the all-zero assignments, which the first centroids are not computed
\* from.
C18_TenRoundsStableAfterFirst ==
  [][/\ (KMeansStart /\ pc' = "kmeans_loop") =>
          (iter' = 0 /\ centroids' = FirstVectors(vectors', config.k))
     /\ KMeansReturn => iter = KMeansRounds
     /\ (KMeansRound /\ iter >= 1 /\ assignments' = assignments) =>
          (centroids' = centroids /\ AssignAll(vectors, centroids') = assignments')]_vars

\* Ten rounds were run for three target entities and k = 2; the last one
\* left the assignments, which use both clusters, unchanged.
C18_Witness ==
  /\ pc = "done" /\ iter = KMeansRounds
  /\ TargetCount = 3 /\ config.k = 2
  /\ assignments = AssignAll(vectors, centroids)
  /\ \E i, j \in 1..Len(assignments) : assignments[i] # assignments[j]

\* The other endpoints of the relations that touch the entity of this name,
\* as source or as target.
OtherEndpoints(name) ==
  {relations[j].target : j \in {j \in 1..Len(relations) : relations[j].source = name}}
    \cup
  {relations[j].source : j \in {j \in 1..Len(relations) : relations[j].target = name}}

TargetNames ==
  {entities[i].name : i \in {i \in 1..Len(entities) : entities[i].type = config.targetType}}

\* The vectors are over this feature list, and the vector of each target
\* entity has 1 exactly at the other endpoints of the relations touching it.
VectorsMarkOtherEndpoints ==
  LET featureList == KMeansFeatureList(entities, relations, config.targetType)
      targetNodes == TargetNodes(entities, config.targetType)
  IN  /\ Range(featureList) = UNION {OtherEndpoints(t) : t \in TargetNames}
      /\ \A f \in 1..(Len(featureList) - 1) : StrLess(featureList[f], featureList[f + 1])
      /\ Len(vectors) = Len(targetNodes)
      /\ \A i \in 1..Len(vectors) :
           /\ Len(vectors[i]) = Len(featureList)
           /\ \A f \in 1..Len(featureList) :
                /\ vectors[i][f] \in {Zero, One}
                /\ vectors[i][f] = One <=>
                     featureList[f] \in OtherEndpoints(targetNodes[i].name)

\* C19 (as stated): the k-means feature vocabulary is the sorted set of the
\* other-endpoint names of all relations touching a target-typed entity, and
\* the vector of a target entity has 1 exactly at the features that are the
\* other endpoint of some relation touching that entity (as source or as
\* target), also when both endpoints are target-typed.
C19_Original ==
  pc = "kmeans_loop" => VectorsMarkOtherEndpoints

\* No relation joins two target-typed entities.
NoTargetToTarget ==
  \A j \in 1..Len(relations) :
    ~(relations[j].source \in TargetNames /\ relations[j].target \in TargetNames)

\* What the code does keep: the same for inputs in which no relation has
\* both endpoints target-typed.
C19_OneTargetEndpoint ==
  (pc = "kmeans_loop" /\ NoTargetToTarget) => VectorsMarkOtherEndpoints

\* Vectors were built over two features, for an input with relations that
\* have the target entity as source and as target.
C19_BothDirections ==
  /\ pc = "kmeans_loop" /\ NoTargetToTarget
  /\ Len(KMeansFeatureList(entities, relations, config.targetType)) = 2
  /\ \E j, k \in 1..Len(relations) :
       /\ relations[j].source \in TargetNames
       /\ relations[k].target \in TargetNames

(* ===================================================================== *)
(* Specification SpecAssoc: calculateAssociationRules.                    *)
(* ===================================================================== *)
NameDirect0 == <<"d", "i", "r", "e", "c", "t", "_", "0">>

\* Fronts (type "F", one with '|' in its name), backs (type "B") and two
\* connectors (type "S"), one named "direct_0".
AssocEntities ==
  << Entity("F", NameA), Entity("F", NameB), Entity("B", NameX),
     Entity("B", NameY), Entity("S", NameC), Entity("F", NameAB),
     Entity("S", NameDirect0) >>

\* Candidate relations; a call gets a subsequence.
AssocRelationPool ==
  << Relation(NameA, NameX), Relation(NameA, NameY), Relation(NameB, NameX),
     Relation(NameC, NameA), Relation(NameC, NameX), Relation(NameC, NameB),
     Relation(NameAB, NameY), Relation(NameDirect0, NameB),
     Relation(NameDirect0, NameY) >>

\* Thresholds in [0, 1].
AssocThresholds == {Zero, Rat(1, 2), One}

InitAssoc ==
  /\ pc = "assoc_call"
  /\ entities = AssocEntities
  /\ \E S \in SUBSET (1..Len(AssocRelationPool)) :
       relations = SubSeqAt(AssocRelationPool, S)
  /\ \E ms \in AssocThresholds, mc \in AssocThresholds :
       config = [frontType |-> "F", backType |-> "B",
                 minSupport |-> ms, minConfidence |-> mc]
  /\ nodes = NoVal /\ links = NoVal
  /\ vectors = NoVal /\ clusters = NoVal /\ centroids = NoVal
  /\ assignments = NoVal /\ iter = 0 /\ labels = NoVal /\ change = FALSE
  /\ result = NoVal /\ session = NoVal /\ precision = Exact

AssocCall ==
  /\ pc = "assoc_call"
  /\ result' = calculateAssociationRules(entities, relations,
                 config.frontType, config.backType,
                 config.minSupport, config.minConfidence)
  /\ pc' = "done"
  /\ UNCHANGED <<precision, session, entities, relations, nodes, links, config, vectors,
                 clusters, centroids, assignments, iter, labels, change>>

NextAssoc == AssocCall

SpecAssoc == InitAssoc /\ [][NextAssoc]_vars

\* The front/back pairs counted in some transaction.
CountedPairs ==
  PairCounts(Transactions(entities, relations, config.frontType, config.backType),
             entities, config.frontType, config.backType)

\* C4: every returned rule has support >= minSupport and
\* confidence >= minConfidence at the same time.
C4_RulesMeetBothThresholds ==
  pc = "done" =>
    \A i \in 1..Len(result.rules) :
      /\ NGeq(result.rules[i].support, config.minSupport)
      /\ NGeq(result.rules[i].confidence, config.minConfidence)

\* Some pair was returned as a rule and another pair was filtered out, under
\* thresholds above 0.
C4_Witness ==
  /\ pc = "done"
  /\ config.minSupport # Zero /\ config.minConfidence # Zero
  /\ Len(result.rules) >= 1
  /\ Len(result.rules) < Len(CountedPairs)

\* C5: the rules are ordered non-increasing by lift: each rule's lift is >=
\* the next rule's lift.
C5_RulesSortedByLift ==
  pc = "done" =>
    \A i \in 1..(Len(result.rules) - 1) :
      NGeq(result.rules[i].lift, result.rules[i + 1].lift)

\* At least two rules of different lift were returned, and the sort moved one.
C5_Witness ==
  /\ pc = "done"
  /\ Len(result.rules) >= 2
  /\ result.rules[1].lift # result.rules[Len(result.rules)].lift
  /\ result.rules #
       RulesUnsorted(CountedPairs,
                     ItemCounts(Transactions(entities, relations,
                                             config.frontType, config.backType)),
                     Len(Transactions(entities, relations,
                                      config.frontType, config.backType)),
                     config.minSupport, config.minConfidence)

\* The type of the entity of this name is the front (the back) type.
IsFront(name) == HasEntity(entities, name, config.frontType)
IsBack(name) == HasEntity(entities, name, config.backType)

\* The relations, by position, from a front-typed source to a back-typed
\* target.
DirectRelations ==
  {j \in 1..Len(relations) : IsFront(relations[j].source) /\ IsBack(relations[j].target)}

DirectTargets(s) ==
  {relations[j].target : j \in {j \in 1..Len(relations) : relations[j].source = s}}

\* The relation sources whose direct targets hold a front and a back entity.
ConnectorSources ==
  {s \in {relations[j].source : j \in 1..Len(relations)} :
     (\E t \in DirectTargets(s) : IsFront(t)) /\ (\E t \in DirectTargets(s) : IsBack(t))}

ConnectorItems(s) == {t \in DirectTargets(s) : IsFront(t) \/ IsBack(t)}

\* The transactions are one {source, target} per direct relation and one per
\* connector source, and each rule's support is its count over their number.
TransactionsAsStated ==
  LET trans == Transactions(entities, relations, config.frontType, config.backType)
      total == Cardinality(DirectRelations) + Cardinality(ConnectorSources)
      stated == {{relations[j].source, relations[j].target} : j \in DirectRelations}
                  \cup {ConnectorItems(s) : s \in ConnectorSources}
  IN  /\ Len(trans) = total
      /\ \A i \in 1..Len(trans) : Range(trans[i][2]) \in stated
      /\ \A X \in stated :
           Cardinality({i \in 1..Len(trans) : Range(trans[i][2]) = X}) =
             Cardinality({j \in DirectRelations :
                            {relations[j].source, relations[j].target} = X})
             + Cardinality({s \in ConnectorSources : ConnectorItems(s) = X})
      /\ \A i \in 1..Len(result.rules) :
           result.rules[i].support = NDiv(Num(result.rules[i].cooccur), Num(total))

\* C20 (as stated): the transactions built by calculateAssociationRules are
\* exactly one transaction {source, target} for each relation (with
\* multiplicity) from a front-typed source to a back-typed target, plus one
\* per distinct relation source whose direct targets hold at least one
\* front-typed and one back-typed entity (those targets, restricted to the
\* two types); totalTransactions is the sum of the two counts.
C20_Original ==
  pc = "done" => TransactionsAsStated

\* No relation source that gets a connector transaction is named like the
\* key of a direct transaction.
NoConnectorNamedAsDirectKey ==
  \A s \in ConnectorSources : \A j \in DirectRelations : s # DirectKey(j - 1)

\* What the code does keep: the same when no connector carries the key of a
\* direct transaction as its name.
C20_OwnKeys ==
  (pc = "done" /\ NoConnectorNamedAsDirectKey) => TransactionsAsStated

\* Rules were returned from two direct transactions and one connector
\* transaction.
C20_DirectAndConnector ==
  /\ pc = "done" /\ NoConnectorNamedAsDirectKey
  /\ Cardinality(DirectRelations) = 2 /\ Cardinality(ConnectorSources) = 1
  /\ Len(result.rules) >= 1

\* The transactions, each as the set of its items, by position.
TransactionSets ==
  LET trans == Transactions(entities, relations, config.frontType, config.backType)
  IN  [i \in 1..Len(trans) |-> Range(trans[i][2])]

\* The number of transactions that contain every item of xs.
CountOf(xs) ==
  Cardinality({i \in 1..Len(TransactionSets) : xs \subseteq TransactionSets[i]})

\* The front/back pairs that co-occur in a transaction and pass both
\* thresholds.
PassingPairs ==
  {fb \in EntityNames \X EntityNames :
     /\ IsFront(fb[1]) /\ IsBack(fb[2])
     /\ CountOf({fb[1], fb[2]}) >= 1
     /\ NGeq(Rat(CountOf({fb[1], fb[2]}), Len(TransactionSets)), config.minSupport)
     /\ NGeq(Rat(CountOf({fb[1], fb[2]}), CountOf({fb[1]})), config.minConfidence)}

\* The rule of a pair, with its four numbers.
StatedRule(fb) ==
  LET cooccur == CountOf({fb[1], fb[2]})
      total == Len(TransactionSets)
      confidence == Rat(cooccur, CountOf({fb[1]}))
  IN  [source |-> fb[1], target |-> fb[2], cooccur |-> cooccur,
       support |-> Rat(cooccur, total), confidence |-> confidence,
       lift |-> NDiv(confidence, Rat(CountOf({fb[2]}), total))]

\* The returned rules are the rules of the passing pairs, one each.
RulesAsStated ==
  /\ \A fb \in PassingPairs :
       Cardinality({i \in 1..Len(result.rules) :
                      result.rules[i].source = fb[1] /\ result.rules[i].target = fb[2]}) = 1
  /\ \A i \in 1..Len(result.rules) :
       \E fb \in PassingPairs : result.rules[i] = StatedRule(fb)

\* C21 (as stated): calculateAssociationRules returns exactly one rule for
\* each front/back pair (f, b) that co-occurs in at least one transaction
\* with cooccur/total >= minSupport and cooccur/count(f) >= minConfidence,
\* and no other rule; its fields are cooccur = the number of transactions
\* with both, support = cooccur/total, confidence = cooccur/count(f) and
\* lift = confidence/(count(b)/total).
C21_Original ==
  pc = "done" => RulesAsStated

\* No front-typed or back-typed entity in a transaction has the character
\* '|' in its name.
BarFreeItems ==
  \A i \in 1..Len(TransactionSets) : \A x \in TransactionSets[i] : ~ContainsBar(x)

\* What the code does keep: the same when no item of a transaction has '|'
\* in its name.
C21_BarFreeItems ==
  (pc = "done" /\ BarFreeItems) => RulesAsStated

\* Rules were returned for some pairs and withheld from others, from
\* transactions without '|' in a name and thresholds above 0.
C21_SomePairsPass ==
  /\ pc = "done" /\ BarFreeItems
  /\ config.minSupport # Zero /\ config.minConfidence # Zero
  /\ Len(result.rules) >= 2
  /\ Len(result.rules) < Len(CountedPairs)

(* ===================================================================== *)
(* Specification SpecCentrality: calculateCentralityRankings.             *)
(* ===================================================================== *)
NameF == <<"f">>
NameG == <<"g">>
NameZ == <<"z">>

\* Node ids in input order; a call gets a prefix of this list, as listed or
\* reversed.
CentralityNodeList == <<NameA, NameB, NameC, NameD, NameE, NameF, NameG>>

Link(s, t) == [source |-> StrEnd(s), target |-> StrEnd(t), type |-> "rel"]

\* Candidate links; a call gets a subsequence.  They cover both directions of
\* a pair, a triangle, a link to an id that is no node (z), and a self-loop.
CentralityLinkPool ==
  << Link(NameA, NameB), Link(NameB, NameA), Link(NameC, NameB), Link(NameB, NameC),
     Link(NameA, NameC), Link(NameC, NameD), Link(NameB, NameZ), Link(NameA, NameA) >>

InitCentrality ==
  /\ pc = "centrality_call"
  /\ \E n \in 0..MaxCentralityNodes, rev \in BOOLEAN :
       LET pre == [i \in 1..n |-> [id |-> CentralityNodeList[i]]]
       IN  nodes = IF rev THEN Reverse(pre) ELSE pre
  /\ \E S \in SUBSET (1..Len(CentralityLinkPool)) :
       links = SubSeqAt(CentralityLinkPool, S)
  /\ config = [type |-> "CENTRALITY"]
  /\ entities = NoVal /\ relations = NoVal
  /\ vectors = NoVal /\ clusters = NoVal /\ centroids = NoVal
  /\ assignments = NoVal /\ iter = 0 /\ labels = NoVal /\ change = FALSE
  /\ result = NoVal /\ session = NoVal /\ precision = Exact

\* Mutant: the rankings are computed after reversing the caller's node list
\* in place.
CentralityCall_ReversesNodes ==
  /\ pc = "centrality_call"
  /\ nodes' = Reverse(nodes)
  /\ result' = calculateCentralityRankings(nodes', links)
  /\ pc' = "done"
  /\ UNCHANGED <<precision, session, entities, relations, links, config, vectors,
                 clusters, centroids, assignments, iter, labels, change>>

CentralityCall ==
  /\ pc = "centrality_call"
  /\ result' = calculateCentralityRankings(nodes, links)
  /\ pc' = "done"
  /\ UNCHANGED <<precision, session, entities, relations, nodes, links, config, vectors,
                 clusters, centroids, assignments, iter, labels, change>>

NextCentrality == CentralityCall

SpecCentrality == InitCentrality /\ [][NextCentrality]_vars

\* The val of id in a ranking (the ranking has one entry for it).
ValOf(list, id) == list[CHOOSE i \in 1..Len(list) : list[i].id = id].val
Ranked(list, id) == \E i \in 1..Len(list) : list[i].id = id

\* The input is the path a - b - c: three nodes, one link between a and b,
\* one between b and c, and no other link.
PathGraphABC ==
  /\ NodeIds(nodes) = {NameA, NameB, NameC}
  /\ Len(links) = 2
  /\ \E i, j \in 1..2 :
       /\ LinkEnds(links[i]) = {NameA, NameB}
       /\ LinkEnds(links[j]) = {NameB, NameC}

\* C6: on the path a - b - c the degrees are a = 1, b = 2, c = 1, the
\* betweenness of b is > 0 and that of a and c is 0, and the closeness of b
\* is >= the closeness of a.
C6_PathGraphCentrality ==
  (pc = "done" /\ PathGraphABC) =>
    /\ \A id \in {NameA, NameB, NameC} :
         /\ Ranked(result.degree, id)
         /\ Ranked(result.betweenness, id)
         /\ Ranked(result.closeness, id)
    /\ ValOf(result.degree, NameA) = Num(1)
    /\ ValOf(result.degree, NameB) = Num(2)
    /\ ValOf(result.degree, NameC) = Num(1)
    /\ NLess(Zero, ValOf(result.betweenness, NameB))
    /\ ValOf(result.betweenness, NameA) = Zero
    /\ ValOf(result.betweenness, NameC) = Zero
    /\ NGeq(ValOf(result.closeness, NameB), ValOf(result.closeness, NameA))

\* The rankings of the path a - b - c were computed, with the nodes given in
\* the order c, b, a and the links as b -> a and c -> b.
C6_Witness ==
  /\ pc = "done" /\ PathGraphABC
  /\ nodes[1].id = NameC
  /\ EndpointId(links[1].source) = NameB
  /\ ValOf(result.betweenness, NameB) = Num(2)

\* The list has exactly one entry per input node and is ordered
\* non-increasing by val.
FullRanking(list) ==
  /\ Len(list) = Len(nodes)
  /\ \A i \in 1..Len(nodes) :
       Cardinality({k \in 1..Len(list) : list[k].id = nodes[i].id}) = 1
  /\ \A k \in 1..(Len(list) - 1) : NGeq(list[k].val, list[k + 1].val)

\* C7 (as stated): each of the three lists returned by
\* calculateCentralityRankings is the full ranked list, one {id, val} entry
\* per input node, not truncated, ordered non-increasing by val.
C7_Original ==
  pc = "done" =>
    /\ FullRanking(result.degree)
    /\ FullRanking(result.betweenness)
    /\ FullRanking(result.closeness)

\* C7, for inputs of at most five nodes (what the code returns in full).
C7_FullUpToFive ==
  (pc = "done" /\ Len(nodes) <= TopN) =>
    /\ FullRanking(result.degree)
    /\ FullRanking(result.betweenness)
    /\ FullRanking(result.closeness)

\* The links whose two ends are both ids of nodes.
LinksBetweenNodes ==
  SelectSeq(links, LAMBDA l : /\ EndpointId(l.source) \in NodeIds(nodes)
                              /\ EndpointId(l.target) \in NodeIds(nodes))

C12_BetweennessUnaffected ==
  pc = "done" =>
    result.betweenness =
      calculateCentralityRankings(nodes, LinksBetweenNodes).betweenness

\* Rankings were returned for an input with a link from a node to an id that
\* is no node, and the node's list holds an entry for that id.
C12_DanglingLink ==
  /\ pc = "done"
  /\ LinksBetweenNodes # links
  /\ NameB \in NodeIds(nodes)
  /\ \E i \in 1..Len(getAdjacency(nodes, links, FALSE)[NameB]) :
       getAdjacency(nodes, links, FALSE)[NameB][i].id = NameZ

(* ===================================================================== *)
(* Specification SpecBetweenness: calculateBetweenness applied to the     *)
(* adjacency index of a graph, as calculateCentralityRankings applies it  *)
(* (lines 427, 434).                                                      *)
(* ===================================================================== *)
\* Node ids in input order; a call gets a prefix, as listed or reversed, and
\* with or without one more node, named "__proto__", at its end.
BetweennessNodeList == <<NameA, NameB, NameC, NameD, NameE>>

\* Candidate links; a call gets a subsequence.  One link for every pair of
\* a, b, c, d, then a second link for the pair a, b and a self-loop.
BetweennessLinkPool ==
  << Link(NameA, NameB), Link(NameC, NameB), Link(NameC, NameD), Link(NameD, NameA),
     Link(NameA, NameC), Link(NameD, NameB), Link(NameB, NameA), Link(NameC, NameC) >>

InitBetweenness ==
  /\ pc = "betweenness_call"
  /\ \E n \in 0..MaxBetweennessNodes, rev \in BOOLEAN, proto \in BOOLEAN :
       LET pre == [i \in 1..n |-> [id |-> BetweennessNodeList[i]]]
       IN  nodes = (IF rev THEN Reverse(pre) ELSE pre)
                     \o (IF proto THEN <<[id |-> NameProto]>> ELSE <<>>)
  /\ \E S \in SUBSET (1..Len(BetweennessLinkPool)) :
       links = SubSeqAt(BetweennessLinkPool, S)
  /\ config = [type |-> "CENTRALITY"]
  /\ entities = NoVal /\ relations = NoVal
  /\ vectors = NoVal /\ clusters = NoVal /\ centroids = NoVal
  /\ assignments = NoVal /\ iter = 0 /\ labels = NoVal /\ change = FALSE
  /\ result = NoVal /\ session = NoVal /\ precision = Exact

\* Lines 427 and 434: CB = calculateBetweenness(nodes, getAdjacency(nodes, links)).
BetweennessCall ==
  /\ pc = "betweenness_call"
  /\ result' = calculateBetweenness(nodes, getAdjacency(nodes, links, FALSE))
  /\ pc' = "done"
  /\ UNCHANGED <<precision, session, entities, relations, nodes, links, config, vectors,
                 clusters, centroids, assignments, iter, labels, change>>

NextBetweenness == BetweennessCall

SpecBetweenness == InitBetweenness /\ [][NextBetweenness]_vars

\* The input is a simple graph: every link joins two different nodes, and no
\* two links join the same pair.
SimpleGraph ==
  /\ \A i \in 1..Len(links) :
       /\ LinkEnds(links[i]) \subseteq NodeIds(nodes)
       /\ Cardinality(LinkEnds(links[i])) = 2
  /\ \A i, j \in 1..Len(links) : LinkEnds(links[i]) = LinkEnds(links[j]) => i = j

Joined(x, y) == \E i \in 1..Len(links) : LinkEnds(links[i]) = {x, y}

\* The walks of k links that start at s, as sequences of k + 1 ids.
RECURSIVE WalksFrom(_, _)
WalksFrom(s, k) ==
  IF k = 0 THEN {<<s>>}
  ELSE {Append(w, y) : w \in WalksFrom(s, k - 1), y \in NodeIds(nodes)}
         \cap {w \in Seq(NodeIds(nodes)) : Len(w) = k + 1 /\ Joined(w[k], w[k + 1])}

\* The shortest paths from s to t; none when t is not reachable from s.
ShortestPaths(s, t) ==
  LET reach(k) == {w \in WalksFrom(s, k) : w[k + 1] = t}
      lens == {k \in 1..Len(nodes) : reach(k) # {}}
  IN  IF lens = {} THEN {}
      ELSE reach(CHOOSE k \in lens : \A h \in lens : k <= h)

RECURSIVE SumOfShares(_, _)
SumOfShares(pairs, v) ==
  IF pairs = {} THEN Zero
  ELSE LET st == CHOOSE x \in pairs : TRUE
           all == ShortestPaths(st[1], st[2])
       IN  NAdd(Rat(Cardinality({w \in all : v \in Range(w)}), Cardinality(all)),
                SumOfShares(pairs \ {st}, v))

\* The sum, over the ordered pairs (s, t) of nodes other than v with t
\* reachable from s, of the share of the shortest s-t paths that pass v.
StatedBetweenness(v) ==
  SumOfShares({st \in NodeIds(nodes) \X NodeIds(nodes) :
                 /\ st[1] # st[2] /\ st[1] # v /\ st[2] # v
                 /\ ShortestPaths(st[1], st[2]) # {}}, v)

\* C25 (as stated): for every simple undirected unweighted graph (no
\* self-loop, no duplicate link, every link end a node) the betweenness of a
\* node v is the sum, over the ordered pairs (s, t) with s, t and v
\* different and t reachable from s, of the number of shortest s-t paths
\* through v over the number of shortest s-t paths; a node is never
\* credited as an end of a path.
C25_Original ==
  (pc = "done" /\ SimpleGraph) =>
    \A i \in 1..Len(nodes) :
      ReadKey(result, nodes[i].id) = StatedBetweenness(nodes[i].id)

\* What the code does keep: the same for every node that is not named
\* "__proto__".
C25_OwnKeys ==
  (pc = "done" /\ SimpleGraph) =>
    \A i \in 1..Len(nodes) :
      nodes[i].id # NameProto =>
        ReadKey(result, nodes[i].id) = StatedBetweenness(nodes[i].id)

\* The betweenness of the cycle a - b - c - d was computed: two shortest
\* paths join a to c and each of b and d is on one, so each node has 1.
C25_SharedPaths ==
  /\ pc = "done" /\ SimpleGraph
  /\ Len(links) = 4
  /\ Cardinality(ShortestPaths(NameA, NameC)) = 2
  /\ \A i \in 1..Len(nodes) : ReadKey(result, nodes[i].id) = One

(* --------------------------------------------------------------------- *)
(* getAdjacency, as calculateHierarchicalTree applies it (SpecHier).      *)
(* --------------------------------------------------------------------- *)
\* The link has a weight, and it is w.
HasWeight(l, w) == l.weight # NoWeight /\ l.weight = w

\* The weight the entries of link l are to carry.
StatedWeight(l, weighted) ==
  IF weighted /\ l.weight # NoWeight THEN l.weight ELSE One

\* The entries link l is to add to the list of node n.
StatedEntries(l, n, weighted) ==
  (IF EndpointId(l.source) = n
   THEN <<[id |-> EndpointId(l.target), weight |-> StatedWeight(l, weighted)]>>
   ELSE <<>>)
    \o (IF EndpointId(l.target) = n
        THEN <<[id |-> EndpointId(l.source), weight |-> StatedWeight(l, weighted)]>>
        ELSE <<>>)

RECURSIVE StatedList(_, _, _)
StatedList(ls, n, weighted) ==
  IF ls = <<>> THEN <<>>
  ELSE StatedEntries(Head(ls), n, weighted) \o StatedList(Tail(ls), n, weighted)

\* The list of every node holds, for the links with both ends in the node
\* set, the stated entries and no other entry for a node.
AdjacencyAsStated(weighted) ==
  \A n \in NodeIds(nodes) :
    SelectSeq(getAdjacency(nodes, links, weighted)[n], LAMBDA x : x.id \in NodeIds(nodes))
      = StatedList(LinksBetweenNodes, n, weighted)

\* C26 (as stated): in getAdjacency every link with both ends in the node set
\* adds one entry to the list of each end (both directions); the weight of
\* the entries is link.weight when weighted is true and the weight is
\* defined, a defined 0 included, 1 when weighted is true and the weight is
\* absent, and 1 whenever weighted is false.
C26_Original ==
  pc = "hier_loop" => (AdjacencyAsStated(TRUE) /\ AdjacencyAsStated(FALSE))

\* What the code does keep: the same when no link has the weight 0.
C26_NonZeroWeights ==
  (pc = "hier_loop" /\ \A i \in 1..Len(links) : ~HasWeight(links[i], Zero)) =>
    (AdjacencyAsStated(TRUE) /\ AdjacencyAsStated(FALSE))

\* The vectors were built from a link between c and b with the weight 0, and
\* the row of c has 1 in the column of b.
C26_ZeroWeightCountsAsOne ==
  /\ pc = "hier_loop"
  /\ Len(links) = 1 /\ HasWeight(links[1], Zero)
  /\ LinkEnds(links[1]) = {NameB, NameC}
  /\ Len(nodes) = 3
  /\ vectors[NameC][2] = One

\* The vectors were built from links with a weight, links without one and a
\* self-loop.
C26_Witness ==
  /\ pc = "hier_loop"
  /\ \A i \in 1..Len(links) : ~HasWeight(links[i], Zero)
  /\ \E i, j, k \in 1..Len(links) :
       /\ links[i].weight = NoWeight
       /\ HasWeight(links[j], Num(2)) /\ Cardinality(LinkEnds(links[j])) = 2
       /\ Cardinality(LinkEnds(links[k])) = 1
  /\ LinksBetweenNodes = links

(* ===================================================================== *)
(* Specification SpecRounded: calculateHierarchicalTree in rounded        *)
(* arithmetic, on graphs in which every two nodes are linked with the     *)
(* same weight.                                                           *)
(* ===================================================================== *)
\* The links of the complete graph on the first n node ids, each of weight w.
CompleteLinks(n, w) ==
  LET pairs == SelectSeq([k \in 1..(n * n) |-> <<((k - 1) \div n) + 1, ((k - 1) % n) + 1>>],
                         LAMBDA ij : ij[1] < ij[2])
  IN  [k \in 1..Len(pairs) |->
         [source |-> StrEnd(CentralityNodeList[pairs[k][1]]),
          target |-> StrEnd(CentralityNodeList[pairs[k][2]]),
          weight |-> Num(w)]]

InitRounded ==
  /\ pc = "hier_call"
  /\ precision = <<MantissaBits>>
  /\ \E n \in 0..MaxRoundedNodes, w \in 1..MaxRoundedWeight :
       /\ nodes = [i \in 1..n |-> [id |-> CentralityNodeList[i]]]
       /\ links = CompleteLinks(n, w)
  /\ \E t \in DistanceTypes, m \in ClusterMethods :
       config = [distanceType |-> t, method |-> m]
  /\ entities = NoVal /\ relations = NoVal
  /\ vectors = NoVal /\ clusters = NoVal /\ centroids = NoVal
  /\ assignments = NoVal /\ iter = 0 /\ labels = NoVal /\ change = FALSE
  /\ result = NoVal /\ session = NoVal

NextRounded == HierStart \/ HierMerge \/ HierReturn

SpecRounded == InitRounded /\ [][NextRounded]_vars

\* C28 (as stated): with the method complete or average the merge distances
\* never decrease along the merge sequence, so the distance of every
\* internal node is at least the distance of each of its children, for every
\* input and distance type.
C28_Original ==
  [](CompleteOrAverage => (\A i \in 1..Len(clusters) : NoInversion(clusters[i].tree)))
    /\ []((CompleteOrAverage /\ pc = "done") => NoInversion(result))
    /\ [][CompleteOrAverage => MergesNoCloser]_vars

\* Five nodes linked with the weight 3, euclidean and average: the last
\* merge, of a cluster of two and a cluster of three, is recorded at a
\* distance below the distance of its children.
C28_AverageBelowItsTerms ==
  /\ pc = "done" /\ precision = <<MantissaBits>>
  /\ config = [distanceType |-> "euclidean", method |-> "average"]
  /\ Len(nodes) = 5 /\ links[1].weight = Num(3)
  /\ result.children[1].distance = Rat(17, 4)
  /\ result.children[2].distance = Rat(17, 4)
  /\ result.distance = Rat(33, 8)

(* ===================================================================== *)
(* Specification SpecCommunity: calculateBipartiteCommunity.              *)
(* ===================================================================== *)
\* Fronts a, b (type "F"), backs x and one named "__proto__" (type "B"), and
\* one entity of another type.
CommunityEntityList ==
  << Entity("F", NameA), Entity("B", NameX), Entity("F", NameB),
     Entity("B", NameProto), Entity("S", NameC) >>

\* Candidate relations; a call gets a subsequence.  They cover a self-loop
\* and relations to an entity outside the two types.
CommunityRelationPool ==
  << Relation(NameA, NameX), Relation(NameProto, NameB), Relation(NameB, NameX),
     Relation(NameB, NameA), Relation(NameA, NameA), Relation(NameC, NameA),
     Relation(NameX, NameC) >>

\* The (frontType, backType) pairs a call is configured with.
CommunityTypePairs == {<<"F", "B">>, <<"F", "F">>, <<"B", "S">>, <<"F", "S">>}

InitCommunity ==
  /\ pc = "community_call"
  /\ entities = CommunityEntityList
  /\ \E S \in SUBSET (1..Len(CommunityRelationPool)) :
       relations = SubSeqAt(CommunityRelationPool, S)
  /\ \E tp \in CommunityTypePairs :
       config = [frontType |-> tp[1], backType |-> tp[2]]
  /\ nodes = NoVal /\ links = NoVal
  /\ vectors = NoVal /\ clusters = NoVal /\ centroids = NoVal
  /\ assignments = NoVal /\ iter = 0 /\ labels = NoVal /\ change = FALSE
  /\ result = NoVal /\ session = NoVal /\ precision = Exact

\* Lines 260-275: the subgraph and the initial labels.
CommunityStart ==
  /\ pc = "community_call"
  /\ nodes' = CommunityNodes(entities, config.frontType, config.backType)
  /\ links' = CommunityLinks(entities, relations, config.frontType, config.backType)
  /\ labels' = InitialLabels(nodes')
  /\ change' = TRUE
  /\ iter' = 0
  /\ pc' = "community_loop"
  /\ UNCHANGED <<precision, session, entities, relations, config, vectors, clusters, centroids,
                 assignments, result>>

\* The loop goes on: fewer than 20 passes made and the last one changed a label.
MorePasses == iter < MaxPasses /\ change

\* Lines 277-298: one pass, in an order drawn for it.
CommunityPass ==
  /\ pc = "community_loop"
  /\ MorePasses
  /\ \E f \in VisitOrders(Len(nodes)) :
       LET st == VisitAll([labels |-> labels, change |-> FALSE],
                          Shuffled(nodes, f), getAdjacency(nodes, links, FALSE))
       IN  labels' = st.labels /\ change' = st.change
  /\ iter' = iter + 1
  /\ UNCHANGED <<precision, session, pc, entities, relations, nodes, links, config, vectors,
                 clusters, centroids, assignments, result>>

\* Lines 300-308: the labels renumbered and the graph returned.
CommunityReturn ==
  /\ pc = "community_loop"
  /\ ~MorePasses
  /\ result' = [nodes |-> Remap(nodes, labels), links |-> links]
  /\ pc' = "done"
  /\ UNCHANGED <<precision, session, entities, relations, nodes, links, config, vectors, clusters,
                 centroids, assignments, iter, labels, change>>

NextCommunity == CommunityStart \/ CommunityPass \/ CommunityReturn

SpecCommunity == InitCommunity /\ [][NextCommunity]_vars

\* The ids reachable from the ids in seen over the returned links.
RECURSIVE ReachableFrom(_, _)
ReachableFrom(seen, ls) ==
  LET more == seen \cup {y \in UNION {LinkEnds(ls[i]) : i \in 1..Len(ls)} :
                           \E i \in 1..Len(ls) :
                             y \in LinkEnds(ls[i]) /\ LinkEnds(ls[i]) \cap seen # {}}
  IN  IF more = seen THEN seen ELSE ReachableFrom(more, ls)

SameComponent(x, y, ls) == y \in ReachableFrom({x}, ls)

\* Two returned nodes in different connected components of the returned links.
Apart(i, j) ==
  ~SameComponent(result.nodes[i].id, result.nodes[j].id, result.links)

CommunityValues == {result.nodes[i].metrics.community : i \in 1..Len(result.nodes)}

\* C9: whatever order each pass visits the nodes in, two nodes in different
\* connected components of the filtered subgraph never get the same
\* metrics.community; so an input of two disconnected components ends with at
\* least 2 distinct community values.
C9_Original ==
  pc = "done" =>
    /\ \A i, j \in 1..Len(result.nodes) :
         Apart(i, j) =>
           result.nodes[i].metrics.community # result.nodes[j].metrics.community
    /\ (\E i, j \in 1..Len(result.nodes) : Apart(i, j)) =>
         Cardinality(CommunityValues) >= 2

\* What the code does keep: the same, between nodes not named "__proto__".
C9_OwnLabelsKeepApart ==
  pc = "done" =>
    \A i, j \in 1..Len(result.nodes) :
      (Apart(i, j) /\ result.nodes[i].id # NameProto
                   /\ result.nodes[j].id # NameProto) =>
        result.nodes[i].metrics.community # result.nodes[j].metrics.community

\* A run over the components a - x and b, in which a label was adopted,
\* ended with two communities.
C9_TwoComponents ==
  /\ pc = "done"
  /\ config = [frontType |-> "F", backType |-> "B"]
  /\ Len(result.links) = 1
  /\ SameComponent(NameA, NameX, result.links)
  /\ iter >= 2
  /\ \E i, j \in 1..Len(result.nodes) :
       /\ result.nodes[i].id = NameA /\ result.nodes[j].id = NameX
       /\ result.nodes[i].metrics.community = result.nodes[j].metrics.community

\* The label a visit of the node id leaves it with, when the visit is made
\* in the current state (the first visit of the next pass).
LabelAfterVisit(id) ==
  LET st == VisitNode([labels |-> labels, change |-> FALSE], id,
                      getAdjacency(nodes, links, FALSE)[id])
  IN  ObjGet(st.labels, id)

\* The labels of the node's neighbours, in the order of its neighbour list.
LabelsAround(id) ==
  NeighborLabels(getAdjacency(nodes, links, FALSE)[id], labels)

TimesIn(found, l) == Cardinality({j \in 1..Len(found) : found[j] = l})

\* The most frequent label of found, the one met first when several are.
FirstMostFrequent(found) ==
  LET first == CHOOSE i \in 1..Len(found) :
                 /\ \A j \in 1..Len(found) : TimesIn(found, found[j]) <= TimesIn(found, found[i])
                 /\ \A j \in 1..(i - 1) : TimesIn(found, found[j]) < TimesIn(found, found[i])
  IN  found[first]

\* The nodes a pass can visit: those with a neighbour.
Visitable == {i \in 1..Len(nodes) : getAdjacency(nodes, links, FALSE)[nodes[i].id] # <<>>}

\* C22 (as stated): in a visit the node adopts a label with the maximum count
\* among its neighbours' current labels; when several labels share the
\* maximum it is the one met first in the scan of the neighbour list.
C22_Original ==
  (pc = "community_loop" /\ MorePasses) =>
    \A i \in Visitable :
      LabelAfterVisit(nodes[i].id) = FirstMostFrequent(LabelsAround(nodes[i].id))

\* What the code does keep: when the node is not named "__proto__" and its
\* neighbours' labels are all numbers, the label adopted has the maximum count
\* and is the least number among the labels that have it.
C22_LeastMostFrequent ==
  (pc = "community_loop" /\ MorePasses) =>
    \A i \in Visitable :
      LET found == LabelsAround(nodes[i].id)
          l == LabelAfterVisit(nodes[i].id)
      IN  (nodes[i].id # NameProto /\ \A j \in 1..Len(found) : IsIndexKey(found[j])) =>
            /\ TimesIn(found, l) >= 1
            /\ \A j \in 1..Len(found) :
                 /\ TimesIn(found, found[j]) <= TimesIn(found, l)
                 /\ TimesIn(found, found[j]) = TimesIn(found, l) => l[1] <= found[j][1]

\* Before the first pass the node b has the neighbours x (label 2) and a
\* (label 0), in this order, and a visit gives it the label 0.
C22_TieGoesToLeast ==
  /\ pc = "community_loop" /\ iter = 0
  /\ config = [frontType |-> "F", backType |-> "B"]
  /\ NameB \in NodeIds(nodes)
  /\ LabelsAround(NameB) = <<Num(2), Num(0)>>
  /\ LabelAfterVisit(NameB) = Num(0)

\* A step that is one pass of the loop.
PassMade == pc = "community_loop" /\ iter' = iter + 1

\* After a pass that changed no label the loop is left; after one that
\* changed a label it goes on, up to the cap.
StopsAtFirstQuietPass ==
  PassMade => (MorePasses' <=> (labels' # labels /\ iter' < MaxPasses))

\* C23 (as stated): for every input and visiting order the loop ends after
\* at most 20 passes, and it is left right after the first pass in which no
\* node's label changed.
C23_Original ==
  [](iter <= MaxPasses) /\ [][StopsAtFirstQuietPass]_vars

\* What the code does keep: at most 20 passes for every input, and the exit
\* after the first quiet pass when no node is named "__proto__".
C23_OwnLabels ==
  [](iter <= MaxPasses)
    /\ [][NameProto \notin NodeIds(nodes) => StopsAtFirstQuietPass]_vars

\* The twentieth pass was made although an earlier one changed no label.
C23_TwentyQuietPasses ==
  /\ pc = "done" /\ iter = MaxPasses
  /\ NameProto \in NodeIds(nodes)
  /\ Len(links) = 1

\* A run without a node named "__proto__" ended after a pass that changed
\* no label, which followed passes that did.
C23_LeftAfterQuietPass ==
  /\ pc = "done" /\ ~change /\ iter >= 2 /\ iter < MaxPasses
  /\ NameProto \notin NodeIds(nodes)

\* The final label of the i-th returned node.
FinalLabel(i) == ObjGet(labels, result.nodes[i].id)

\* The place of the i-th node's label among the distinct final labels, in the
\* order in which the node list first shows them (from 0).
PlaceByFirstAppearance(i) ==
  LET first == CHOOSE j \in 1..i :
                 FinalLabel(j) = FinalLabel(i) /\ \A h \in 1..(j - 1) : FinalLabel(h) # FinalLabel(i)
  IN  Cardinality({FinalLabel(h) : h \in 1..(first - 1)})

DenseByFirstAppearance ==
  /\ CommunityValues = 0..(Cardinality({FinalLabel(i) : i \in 1..Len(result.nodes)}) - 1)
  /\ \A i \in 1..Len(result.nodes) :
       result.nodes[i].metrics.community = PlaceByFirstAppearance(i)
  /\ \A i, j \in 1..Len(result.nodes) :
       result.nodes[i].metrics.community = result.nodes[j].metrics.community
         <=> FinalLabel(i) = FinalLabel(j)

\* C24 (as stated): the metrics.community values are exactly 0..m-1, m the
\* number of distinct final labels, numbered by first appearance in node
\* order; two nodes have the same value exactly when their final labels are
\* the same.
C24_Original ==
  pc = "done" => DenseByFirstAppearance

\* What the code does keep: the same when no node is named "__proto__".
C24_OwnLabels ==
  (pc = "done" /\ NameProto \notin NodeIds(result.nodes)) => DenseByFirstAppearance

\* A run without a node named "__proto__" ended with two communities, one of
\* them of nodes that took a label over.
C24_TwoCommunities ==
  /\ pc = "done" /\ NameProto \notin NodeIds(result.nodes)
  /\ CommunityValues = {0, 1}
  /\ Len(result.nodes) >= 3
  /\ iter >= 2

\* No two entities of the input share a name.
DistinctNames ==
  \A i, j \in 1..Len(entities) : entities[i].name = entities[j].name => i = j

EachIdOnce ==
  \A i, j \in 1..Len(result.nodes) :
    result.nodes[i].id = result.nodes[j].id => i = j

LinksJoinTwoNodes ==
  \A i \in 1..Len(result.links) :
    /\ LinkEnds(result.links[i]) \subseteq NodeIds(result.nodes)
    /\ Cardinality(LinkEnds(result.links[i])) = 2

\* C29 (as stated): for entity names pairwise distinct and every frontType
\* and backType, the two equal included, the returned node list has each id
\* at most once, and every returned link has both ends in the node list and
\* a source other than its target.
C29_Original ==
  (pc = "done" /\ DistinctNames) => (EachIdOnce /\ LinksJoinTwoNodes)

\* What the code does keep: the links as stated for every pair of types, and
\* each id once when frontType differs from backType.
C29_TwoTypes ==
  (pc = "done" /\ DistinctNames) =>
    /\ LinksJoinTwoNodes
    /\ config.frontType # config.backType => EachIdOnce

\* A call with two different types returned nodes and links.
C29_NodesAndLinks ==
  /\ pc = "done" /\ DistinctNames
  /\ config.frontType # config.backType
  /\ Len(result.nodes) >= 4 /\ Len(result.links) >= 2

\* The label the node id has when the loop is entered (after line 275).
InitialLabel(id) == ObjGet(InitialLabels(nodes), id)

\* C30: when the loop is left because a pass made no change, every node with
\* a neighbour holds a label whose count among its neighbours' labels is the
\* maximum, and every node without a neighbour holds the label it started
\* with.
C30_QuietExitIsStable ==
  (pc = "done" /\ ~change) =>
    \A i \in 1..Len(nodes) :
      LET id == nodes[i].id
          found == LabelsAround(id)
      IN  IF i \in Visitable
          THEN \A j \in 1..Len(found) :
                 TimesIn(found, found[j]) <= TimesIn(found, ObjGet(labels, id))
          ELSE ObjGet(labels, id) = InitialLabel(id)

\* The loop was left after a quiet pass with a node that had taken a label
\* over, a node with two neighbours and a node with none.
C30_Witness ==
  /\ pc = "done" /\ ~change /\ iter >= 2
  /\ \E i \in Visitable : ObjGet(labels, nodes[i].id) # InitialLabel(nodes[i].id)
  /\ \E i \in Visitable : Len(LabelsAround(nodes[i].id)) >= 2
  /\ \E i \in 1..Len(nodes) : i \notin Visitable

(* ===================================================================== *)
(* Specification SpecSession: a caller that invokes the engine up to      *)
(* MaxCalls times, through runAlgorithm with any identifier or through    *)
(* generateCooccurrenceGraph, each call run to its end before the next.   *)
(* ===================================================================== *)
\* The raw data and the graph a call is handed: nothing at all, or these.
SessionEntities == << Entity("T", NameA), Entity("F", NameX), Entity("T", NameB) >>
SessionRelations == << Relation(NameA, NameX), Relation(NameB, NameX) >>
SessionNodes == << [id |-> NameA], [id |-> NameB], [id |-> NameC] >>
SessionLinks ==
  << [source |-> StrEnd(NameA), target |-> StrEnd(NameB), weight |-> Num(2)],
     [source |-> StrEnd(NameB), target |-> StrEnd(NameC), weight |-> NoWeight] >>

NoRaw == [given |-> FALSE, entities |-> NoVal, relations |-> NoVal]
RawChoices ==
  { [given |-> TRUE, entities |-> <<>>, relations |-> <<>>],
    [given |-> TRUE, entities |-> SessionEntities, relations |-> SessionRelations] }
NoGraph == [nodes |-> NoVal, links |-> NoVal]
GraphChoices ==
  { [nodes |-> <<>>, links |-> <<>>],
    [nodes |-> SessionNodes, links |-> SessionLinks] }

\* Type names of the entities above in their three roles, and of no entity.
SessionTypePairs == {<<"T", "F">>, <<"V", "W">>}

Call(type, raw, graph, params) ==
  [type |-> type, rawData |-> raw.given, entities |-> raw.entities,
   relations |-> raw.relations, nodes |-> graph.nodes, links |-> graph.links,
   config |-> params]

\* What a call can be: runAlgorithm(type, data, params, rawData) for the five
\* identifiers, for KMEANS without rawData and for an unknown identifier, and
\* generateCooccurrenceGraph (handed on to HIERARCHICAL as the application
\* does).
SessionCalls ==
  {Call("HIERARCHICAL", NoRaw, g, hc) : g \in GraphChoices, hc \in CoocHierConfigs}
    \cup {Call("CENTRALITY", NoRaw, g, [type |-> "CENTRALITY"]) : g \in GraphChoices}
    \cup {Call("KMEANS", r, NoGraph, [targetType |-> t, k |-> k]) :
            r \in RawChoices, t \in {"T", "V"}, k \in {0, 2}}
    \cup {Call("KMEANS", NoRaw, NoGraph, [targetType |-> "T", k |-> 2])}
    \cup {Call("ASSOCIATION", r, NoGraph,
                [frontType |-> tp[1], backType |-> tp[2],
                 minSupport |-> Zero, minConfidence |-> Zero]) :
            r \in RawChoices, tp \in SessionTypePairs}
    \cup {Call("COMMUNITY", r, NoGraph, [frontType |-> tp[1], backType |-> tp[2]]) :
            r \in RawChoices, tp \in SessionTypePairs}
    \cup {Call("COOC", r, NoGraph,
                [containerType |-> tp[2], itemType |-> tp[1],
                 distanceType |-> "euclidean", method |-> "complete"]) :
            r \in RawChoices, tp \in SessionTypePairs}
    \cup {Call("OTHER", NoRaw, NoGraph, [type |-> "OTHER"])}

\* What the call that just ended gave its caller: how it ended, the value it
\* returned and, for generateCooccurrenceGraph, the graph it built.
Outcome ==
  [end |-> pc, result |-> result,
   graph |-> IF session.given.type = "COOC" THEN <<nodes, links>> ELSE NoVal]

\* Lines 500-518: where runAlgorithm sends the call; "done" at once for the
\* final 'return {}'.
Dispatch(c) ==
  IF c.type = "HIERARCHICAL" THEN "hier_call"
  ELSE IF c.type = "KMEANS" /\ c.rawData THEN "kmeans_call"
  ELSE IF c.type = "COMMUNITY" /\ c.rawData THEN "community_call"
  ELSE IF c.type = "ASSOCIATION" /\ c.rawData THEN "assoc_call"
  ELSE IF c.type = "CENTRALITY" THEN "centrality_call"
  ELSE IF c.type = "COOC" THEN "cooc_call"
  ELSE "done"

InitSession ==
  /\ pc = "idle"
  /\ entities = NoVal /\ relations = NoVal /\ nodes = NoVal /\ links = NoVal
  /\ config = NoVal
  /\ vectors = NoVal /\ clusters = NoVal /\ centroids = NoVal
  /\ assignments = NoVal /\ iter = 0 /\ labels = NoVal /\ change = FALSE
  /\ result = NoVal
  /\ session = [given |-> NoVal, calls |-> <<>>]
  /\ precision = Exact

\* The caller makes its next call, once the one before has ended (returned
\* or raised): the ended call goes on record, and the working values of the
\* engine, all local to the ended call, are gone.
SessionInvoke ==
  /\ pc \in {"idle", "done", "raised"}
  /\ Len(session.calls) + (IF pc = "idle" THEN 0 ELSE 1) < MaxCalls
  /\ \E c \in SessionCalls :
       /\ session' = [given |-> c,
                      calls |-> IF pc = "idle" THEN session.calls
                                ELSE Append(session.calls,
                                            [input |-> session.given,
                                             output |-> Outcome])]
       /\ entities' = c.entities /\ relations' = c.relations
       /\ nodes' = c.nodes /\ links' = c.links
       /\ config' = c.config
       /\ pc' = Dispatch(c)
  /\ vectors' = NoVal /\ clusters' = NoVal /\ centroids' = NoVal
  /\ assignments' = NoVal /\ iter' = 0 /\ labels' = NoVal /\ change' = FALSE
  /\ result' = NoVal
  /\ UNCHANGED precision

NextSession ==
  \/ SessionInvoke
  \/ HierStart \/ HierMerge \/ HierReturn
  \/ CoocCall
  \/ KMeansStart \/ KMeansRound \/ KMeansRaise \/ KMeansReturn
  \/ AssocCall
  \/ CentralityCall
  \/ CommunityStart \/ CommunityPass \/ CommunityReturn

SpecSession == InitSession /\ [][NextSession]_vars

\* The types a call's configuration names.
ConfiguredTypes(c) ==
  IF c.type = "KMEANS" THEN {c.config.targetType}
  ELSE IF c.type \in {"ASSOCIATION", "COMMUNITY"}
  THEN {c.config.frontType, c.config.backType}
  ELSE IF c.type = "COOC" THEN {c.config.containerType, c.config.itemType}
  ELSE {}

\* The call was handed empty lists, or a configuration whose types are the
\* type of no entity.
EmptyOrNonMatching(c) ==
  IF c.type \in {"HIERARCHICAL", "CENTRALITY"}
  THEN c.nodes = <<>> /\ c.links = <<>>
  ELSE /\ c.type \in {"KMEANS", "ASSOCIATION", "COMMUNITY", "COOC"}
       /\ c.rawData
       /\ \A i \in 1..Len(c.entities) : c.entities[i].type \notin ConfiguredTypes(c)

\* The empty result of each operation.
ReturnedEmpty(c) ==
  CASE c.type = "KMEANS" -> result = [result |-> <<>>, nodes |-> <<>>]
    [] c.type = "ASSOCIATION" -> result = [rules |-> <<>>, nodes |-> <<>>, links |-> <<>>]
    [] c.type = "COMMUNITY" -> result = [nodes |-> <<>>, links |-> <<>>]
    [] c.type = "CENTRALITY" ->
         result = [degree |-> <<>>, betweenness |-> <<>>, closeness |-> <<>>]
    [] c.type = "COOC" -> nodes = <<>> /\ links = <<>>
    [] c.type = "HIERARCHICAL" -> {"name", "children"} \subseteq DOMAIN result

\* C11: no engine operation ends in an error on empty or non-matching input:
\* KMEANS returns an empty result map and node list, ASSOCIATION empty rules,
\* nodes and links, COMMUNITY empty nodes and links, CENTRALITY three empty
\* lists, generateCooccurrenceGraph empty nodes and links, and HIERARCHICAL a
\* tree value.
C11_EmptyInputsReturnEmpty ==
  (pc \in {"done", "raised"} /\ EmptyOrNonMatching(session.given)) =>
    (pc = "done" /\ ReturnedEmpty(session.given))

\* A k-means call with entities but a target type of none of them, and k = 0,
\* returned, after a call that raised.
C11_Witness ==
  /\ pc = "done"
  /\ session.given.type = "KMEANS" /\ session.given.entities # <<>>
  /\ session.given.config.k = 0
  /\ EmptyOrNonMatching(session.given)
  /\ Len(session.calls) = 1 /\ session.calls[1].output.end = "raised"

\* The calls made so far that have ended, the last one included.
EndedCalls ==
  IF pc \in {"done", "raised"}
  THEN Append(session.calls, [input |-> session.given, output |-> Outcome])
  ELSE session.calls

DeterministicTypes == {"HIERARCHICAL", "KMEANS", "ASSOCIATION", "CENTRALITY", "COOC"}

GivenObjects ==
  session.given.entities \o session.given.relations
    \o session.given.nodes \o session.given.links

\* The annotated nodes and links the ended call returned.
ReturnedObjects ==
  LET c == session.given
  IN  IF c.type = "KMEANS" /\ c.rawData THEN result.nodes
      ELSE IF c.type \in {"ASSOCIATION", "COMMUNITY"} /\ c.rawData
      THEN result.nodes \o result.links
      ELSE IF c.type = "COOC" THEN nodes \o links
      ELSE <<>>

\* Two objects with the same fields and the same value in each.
SameObject(x, y) == DOMAIN x = DOMAIN y /\ x = y

\* C14: after any sequence of engine invocations the caller's input
\* collections are unchanged (nothing added, removed, reordered or modified
\* in the entities, relations, nodes and links passed in), and the annotated
\* nodes and links of a result are none of the objects passed in.
C14_InputsUnchanged ==
  pc # "idle" =>
    /\ entities = session.given.entities
    /\ relations = session.given.relations
    /\ session.given.type \in {"HIERARCHICAL", "CENTRALITY"} =>
         (nodes = session.given.nodes /\ links = session.given.links)
    /\ pc = "done" =>
         \A i \in 1..Len(ReturnedObjects), j \in 1..Len(GivenObjects) :
           ~SameObject(ReturnedObjects[i], GivenObjects[j])

\* A community call returned annotated nodes and links, after a centrality
\* call on a graph of three nodes.
C14_Witness ==
  /\ pc = "done"
  /\ session.given.type = "COMMUNITY"
  /\ result.nodes # <<>> /\ result.links # <<>>
  /\ Len(session.calls) = 1
  /\ session.calls[1].input.type = "CENTRALITY"
  /\ Len(session.calls[1].input.nodes) = 3

====
